---- MODULE Spec2Model ----
(***************************************************************************)
(* SyncAI search agent (rrbanda/sync-ai): the streaming consumption of the *)
(* upstream agent turn, chunk content extraction, response formatting and  *)
(* the HTTP route that wraps the search.                                   *)
(*                                                                         *)
(* Text is a sequence of one-character strings ("a", "#", " " stands for   *)
(* whitespace) and of literal tokens, each token standing for one fixed    *)
(* piece of a format string of the source.                                 *)
(***************************************************************************)
EXTENDS Integers, Sequences, FiniteSets, TLC

\* ------------------------------------------------------------------ bounds
\* Chunks one upstream turn may deliver before it ends, fails or hangs.
MaxChunks == 3
\* Attributes a chunk of the extraction specification may carry at once.
MaxPresent == 2
\* Entries of a chunk's choices list.
MaxChoices == 2
\* Waiting steps observed while the upstream hangs.
MaxWaits == 2
\* Entries of the longest focus-area list handed to validation.
MaxAreas == 11
\* Calls of reload_config in one behaviour.
MaxReloads == 2
\* Search requests the server handles in one behaviour.
MaxInvocations == 2

\* ------------------------------------------------------------------ text
IsWs(ch) == ch = " "

RECURSIVE LStrip(_)
LStrip(t) == IF t = <<>> THEN <<>>
             ELSE IF IsWs(Head(t)) THEN LStrip(Tail(t)) ELSE t

RECURSIVE RStrip(_)
RStrip(t) == IF t = <<>> THEN <<>>
             ELSE IF IsWs(t[Len(t)]) THEN RStrip(SubSeq(t, 1, Len(t) - 1)) ELSE t

\* str.strip()
Strip(t) == RStrip(LStrip(t))

\* ', '.join(items)
RECURSIVE Join(_)
Join(items) == IF items = <<>> THEN <<>>
               ELSE IF Len(items) = 1 THEN <<items[1]>>
               ELSE <<items[1], ", ">> \o Join(Tail(items))

\* seq[:n]
Take(s, n) == SubSeq(s, 1, IF Len(s) < n THEN Len(s) ELSE n)

\* ------------------------------------------------------ attribute values
\* The value found at an attribute path of a chunk: the path is absent (a
\* hasattr or a truthiness test on the way fails), it holds a value that is
\* not a string (None, a number, an object), or it holds a string.
Absent == [k |-> "absent", s |-> <<>>]
NonStr == [k |-> "nonstr", s |-> <<>>]
Str(s) == [k |-> "str", s |-> s]

LeafTexts == {<<>>, <<" ">>, <<"a">>, <<"b">>}
LeafValues == {Absent, NonStr} \cup {Str(s) : s \in LeafTexts}

\* hasattr(obj, name)
HasAttr(v) == v.k # "absent"
\* isinstance(content, str)
IsStr(v) == v.k = "str"
\* isinstance(content, str) and content.strip()
IsNonBlankStr(v) == IsStr(v) /\ Strip(v.s) # <<>>

\* A chunk, by the values at the seven paths the extraction probes:
\*   edt  chunk.event.payload.delta.text     epc  chunk.event.payload.content
\*   dc   chunk.delta.content                dt   chunk.delta.text
\*   c    chunk.content                      raw  the chunk itself, when a str
\*   choices  the values of choice.delta.content along chunk.choices
\* raisesAt is the probe (1..7) whose attribute access raises, 0 for none.
LeafFields == {"edt", "epc", "dc", "dt", "c", "raw"}

\* choice.delta.content along chunk.choices: absent, not a string, "" or text.
ChoiceValues == {Absent, NonStr, Str(<<>>), Str(<<"a">>)}

ChoiceLists == UNION {[1..n -> ChoiceValues] : n \in 0..MaxChoices}

Slots == LeafFields \cup {"choices"}

SlotSets(n) == {T \in SUBSET Slots : Cardinality(T) <= n}

ChunkOf(f, choices, raisesAt) ==
    [x \in LeafFields \cup {"choices", "raisesAt"} |->
        IF x = "choices" THEN choices
        ELSE IF x = "raisesAt" THEN raisesAt
        ELSE IF x \in DOMAIN f THEN f[x] ELSE Absent]

EmptyChunk == ChunkOf(<<>>, <<>>, 0)

\* Every well-formed chunk with at most n attributes present, raising at some
\* probe or at none.
Chunks(n) ==
    UNION { { ChunkOf(f, cl, r) :
                f \in {g \in [T \cap LeafFields -> LeafValues \ {Absent}] :
                          "raw" \in DOMAIN g => IsStr(g["raw"])},
                cl \in (IF "choices" \in T THEN ChoiceLists \ {<<>>} ELSE {<<>>}),
                r \in (0..7) \ {6} }
            : T \in {U \in SlotSets(n) : "raw" \in U => U = {"raw"}} }

\* ------------------------------------------------------------ extraction
\* The outcome of the probe chain: a returned string, or an exception.
Ret(s) == [raised |-> FALSE, s |-> s]
Raised == [raised |-> TRUE, s |-> <<>>]

\* for choice in chunk.choices: the first choice whose delta.content is a
\* non-blank string
RECURSIVE ChoicesProbe(_)
ChoicesProbe(cl) ==
    IF cl = <<>> THEN Ret(<<>>)
    ELSE IF IsNonBlankStr(Head(cl)) THEN Ret(Head(cl).s)
    ELSE ChoicesProbe(Tail(cl))

ProbeChoices(ch) ==
    IF ch.raisesAt = 7 /\ ch.choices # <<>> THEN Raised ELSE ChoicesProbe(ch.choices)

ProbeRaw(ch) ==
    IF IsNonBlankStr(ch.raw) THEN Ret(ch.raw.s) ELSE ProbeChoices(ch)

ProbeContent(ch) ==
    IF ch.raisesAt = 5 THEN Raised
    ELSE IF HasAttr(ch.c) /\ IsNonBlankStr(ch.c) THEN Ret(ch.c.s)
    ELSE ProbeRaw(ch)

\* if hasattr(chunk.delta, "content"): ... elif hasattr(chunk.delta, "text"): ...
ProbeDelta(ch) ==
    IF ch.raisesAt = 3 THEN Raised
    ELSE IF HasAttr(ch.dc)
         THEN IF IsNonBlankStr(ch.dc) THEN Ret(ch.dc.s) ELSE ProbeContent(ch)
    ELSE IF ch.raisesAt = 4 THEN Raised
    ELSE IF HasAttr(ch.dt)
         THEN IF IsNonBlankStr(ch.dt) THEN Ret(ch.dt.s) ELSE ProbeContent(ch)
    ELSE ProbeContent(ch)

ProbeEventContent(ch) ==
    IF ch.raisesAt = 2 THEN Raised
    ELSE IF HasAttr(ch.epc) /\ IsNonBlankStr(ch.epc) THEN Ret(ch.epc.s)
    ELSE ProbeDelta(ch)

\* content = chunk.event.payload.delta.text; if isinstance(content, str): return content
ProbeEventDeltaText(ch) ==
    IF ch.raisesAt = 1 THEN Raised
    ELSE IF HasAttr(ch.edt) /\ IsStr(ch.edt) THEN Ret(ch.edt.s)
    ELSE ProbeEventContent(ch)

\* The probe chain with no handler around it: the exception leaves the method.
ExtractOutcomeUncaught(ch) == ProbeEventDeltaText(ch)

\* SyncSearchAgent._extract_content_from_chunk: the probe chain inside
\* try/except Exception, whose handler returns "".
ExtractOutcome(ch) ==
    LET r == ProbeEventDeltaText(ch)
    IN  IF r.raised THEN Ret(<<>>) ELSE r

\* --------------------------------------------------------- configuration
\* SyncSearchAgent.__init__(..., timeout: int = 60)
DefaultTimeout == 60

\* PersonaConfigLoader._get_default_config: the registry's devops_engineer
\* profile (the fields the search reads).
DevopsConfig ==
    [display_name |-> <<"DevOps Engineer">>,
     description |-> <<"Infrastructure and deployment focused AI search">>,
     focus_areas |-> <<"MLOps platform updates", "AI infrastructure scaling",
                       "GPU cluster management", "Container orchestration for AI",
                       "AI model deployment tools", "Cost optimization strategies",
                       "Monitoring and observability", "CI/CD for AI models",
                       "Infrastructure as Code for AI">>,
     core_objectives |-> <<"Infrastructure insights", "Cost optimization", "Scalability">>]

\* persona_config = None
NoConfig ==
    [display_name |-> <<>>, description |-> <<>>, focus_areas |-> <<>>,
     core_objectives |-> <<>>]

\* PersonaConfigLoader.get_available_personas
AvailablePersonas == {"devops_engineer"}

\* PersonaConfigLoader.get_persona_config: the profile, or (raising ValueError
\* for an unknown persona) none.
get_persona_config(persona) ==
    IF persona \in AvailablePersonas THEN DevopsConfig ELSE NoConfig

\* persona.replace('_', ' ').title()
TitleOf(persona) == <<"title", persona>>

DisplayName(persona, persona_config) ==
    IF persona_config # NoConfig THEN persona_config.display_name ELSE TitleOf(persona)

\* ------------------------------------------------------------ the inputs
Personas == {"devops_engineer", "data_scientist"}
FocusInputs == {<<>>, <<"market trends", "competitive analysis">>}
\* None, the empty string, a supplied id
NoneId == "<None>"
CorrelationInputs == {NoneId, "req_12345", "id!"}

\* The characters of a correlation id.
IdText(cid) ==
    CASE cid = "req_12345" -> <<"r", "e", "q", "_", "1", "2", "3", "4", "5">>
      [] cid = "id!" -> <<"i", "d", "!">>
      [] cid = "<uuid4>" -> <<"0", "f", "8", "f", "-", "4", "a", "1", "b">>
      [] OTHER -> <<>>

\* [a-zA-Z0-9_-]
IsIdChar(ch) ==
    ch \in {"a", "b", "d", "e", "f", "i", "q", "r", "A", "Z",
            "0", "1", "2", "3", "4", "5", "8", "_", "-"}

\* SearchRequestValidator.validate_correlation_id: the id, a fresh one when
\* none is supplied, or ValueError.
ValueError == "<ValueError>"

validate_correlation_id(cid) ==
    IF cid \notin {NoneId, ""}
    THEN IF Len(IdText(cid)) < 8 THEN ValueError
         ELSE IF \E i \in 1..Len(IdText(cid)) : ~IsIdChar(IdText(cid)[i]) THEN ValueError
         ELSE cid
    ELSE "<uuid4>"
\* request.timeout: None (<<>>) or a validated value
TimeoutInputs == {<<>>, <<10>>}
\* Seconds a blocking read of the upstream takes.
Delays == {0, 10}
Errors == {"ConnectionError"}

\* The chunks the upstream of the search specification delivers: text found
\* by the first probe, whitespace found by the first probe, a heading mark in
\* chunk.content, a chunk no probe matches, a chunk whose access raises.
StreamChunks ==
    { ChunkOf([edt |-> Str(<<"a">>)], <<>>, 0),
      ChunkOf([edt |-> Str(<<" ">>)], <<>>, 0),
      ChunkOf([c |-> Str(<<"#">>)], <<>>, 0),
      EmptyChunk,
      ChunkOf(<<>>, <<>>, 1) }

\* ------------------------------------------------------ search_ai_info
\* The supplied id ignored: a fresh one whatever the request carries.
CorrelationIdAlwaysFresh(cid) == "<uuid4>"

\* correlation_id = correlation_id or str(uuid.uuid4())
CorrelationIdOrFresh(cid) == IF cid \in {NoneId, ""} THEN "<uuid4>" ELSE cid

\* focus areas after persona loading (search_ai_info lines 38-46)
EffectiveFocusAreas(persona, focus_areas) ==
    IF focus_areas # <<>> THEN focus_areas
    ELSE IF persona \in AvailablePersonas
         THEN Take(get_persona_config(persona).focus_areas, 3)
         ELSE <<"AI developments", "technology trends">>

build_working_search_query(persona, persona_config, focus_areas) ==
    <<"Search for the latest information about ">> \o Join(focus_areas)
      \o <<". Focus on developments relevant to a ">>
      \o DisplayName(persona, persona_config) \o <<".">>

\* _execute_search_sync after the loop (lines 325-331)
SearchReturn(full_response, chunk_count) ==
    IF Strip(full_response) = <<>>
    THEN <<"No content extracted from ", ToString(chunk_count),
           " chunks. The agent may not be responding to the search query properly.">>
    ELSE Strip(full_response)

\* except Exception as e: return f"Search execution failed: {str(e)}"
SearchFailed(err) == <<"Search execution failed: ", err>>

\* The content put in front of the text instead of after it.
AccumulatePrepended(text, content) == content \o text

\* full_response += content
Accumulate(text, content) == text \o content

\* The clock never consulted, as in the loop of the streaming variant.
DeadlineUnchecked(current_time, start, limit) == FALSE

\* current_time - start_time > self.timeout
DeadlineExceeded(current_time, start, limit) == current_time - start > limit

UnavailableTemplate(display_name, focus_areas) ==
    <<"# Search Results Unavailable",
      "Unfortunately, no search results are currently available for ">>
      \o display_name
      \o <<".", "**Possible causes:** ...", "**Requested focus areas:** ">>
      \o Join(focus_areas)
      \o <<"**Troubleshooting tip:** ...",
           "Please check the system configuration and try again.">>

\* response.startswith("#")
StartsWithHash(t) == t # <<>> /\ t[1] = "#"

add_headers_and_structure(response, persona, persona_config, focus_areas) ==
    LET display_name == DisplayName(persona, persona_config)
        header == <<"# SyncAI Intelligence Report: ">> \o display_name
                    \o <<"**Focus Areas:** ">> \o Join(focus_areas)
                    \o <<"**Generated:** ", "<timestamp>">>
                    \o (IF persona_config # NoConfig
                        THEN <<"**Report Type:** ">> \o persona_config.description
                        ELSE <<>>)
                    \o <<"---">>
        footer == <<"---", "*This report was generated by SyncAI using automated tool invocation.*",
                    "*Optimized for: ">> \o display_name
                    \o <<"*Report generated at ", "<timestamp>">>
                    \o (IF persona_config # NoConfig /\ persona_config.core_objectives # <<>>
                        THEN <<"*Focus: ">> \o Join(Take(persona_config.core_objectives, 3))
                        ELSE <<>>)
    IN  (IF StartsWithHash(response) THEN response ELSE header \o response) \o footer

format_response(search_results, persona, persona_config, focus_areas) ==
    IF search_results = <<>> \/ Strip(search_results) = <<>>
    THEN UnavailableTemplate(DisplayName(persona, persona_config), focus_areas)
    ELSE add_headers_and_structure(search_results, persona, persona_config, focus_areas)

\* bool(search_results and search_results.strip())
ResponseAvailable(search_results) ==
    IF search_results # <<>> /\ Strip(search_results) # <<>> THEN "yes" ELSE "no"

NoResult ==
    [type |-> "none", persona |-> "", focus_areas |-> <<>>, formatted_response |-> <<>>,
     correlation_id |-> "", elapsed_time |-> 0, error |-> Absent,
     response_available |-> "absent"]

\* The record search_ai_info returns (lines 59-79), and the "result" event of
\* search_ai_info_stream (lines 255-269): neither carries an "error" key.
SearchResult(persona, persona_config, focus_areas, cid, search_results, elapsed) ==
    [type |-> "result", persona |-> persona, focus_areas |-> focus_areas,
     formatted_response |-> format_response(search_results, persona, persona_config, focus_areas),
     correlation_id |-> cid, elapsed_time |-> elapsed, error |-> Absent,
     response_available |-> ResponseAvailable(search_results)]

\* ------------------------------------------------------------- the route
NoResponse ==
    [status |-> 0, success |-> FALSE, correlation_id |-> "", formatted_response |-> <<>>,
     error |-> Absent, timeout_used |-> 0]

\* results.get("error"): the value, or None
GetError(results) == results.error

\* not results.get("error")
NotError(results) == ~(IsStr(GetError(results)) /\ GetError(results).s # <<>>)

\* search_technology_intelligence: SyncSearchResponse(...) (lines 272-288)
RouteResponse(results, request_timeout) ==
    [status |-> 200, success |-> NotError(results),
     correlation_id |-> results.correlation_id,
     formatted_response |-> results.formatted_response,
     error |-> GetError(results),
     timeout_used |-> IF request_timeout # <<>> THEN request_timeout[1] ELSE 60]

\* raise HTTPException(status_code=400, detail="Unknown persona: ...")
UnknownPersonaResponse ==
    [status |-> 400, success |-> FALSE, correlation_id |-> "", formatted_response |-> <<>>,
     error |-> Str(<<"Unknown persona">>), timeout_used |-> 0]

\* ------------------------------------------------------------ validation
Lowers == <<"a", "b", "c", "d", "e", "f", "g", "h", "i", "j", "k", "l", "m",
            "n", "o", "p", "q", "r", "s", "t", "u", "v", "w", "x", "y", "z">>
Uppers == <<"A", "B", "C", "D", "E", "F", "G", "H", "I", "J", "K", "L", "M",
            "N", "O", "P", "Q", "R", "S", "T", "U", "V", "W", "X", "Y", "Z">>
Digits == {"0", "1", "2", "3", "4", "5", "6", "7", "8", "9"}

\* str.lower and str.upper on one character
LowerCh(ch) ==
    IF \E i \in 1..Len(Uppers) : Uppers[i] = ch
    THEN Lowers[CHOOSE i \in 1..Len(Uppers) : Uppers[i] = ch] ELSE ch
UpperCh(ch) ==
    IF \E i \in 1..Len(Lowers) : Lowers[i] = ch
    THEN Uppers[CHOOSE i \in 1..Len(Lowers) : Lowers[i] = ch] ELSE ch

\* str.lower
Lower(t) == [i \in 1..Len(t) |-> LowerCh(t[i])]

\* The time-range tokens.
T7d == <<"7", "d">>
T30d == <<"3", "0", "d">>
T90d == <<"9", "0", "d">>
T6m == <<"6", "m">>
T1y == <<"1", "y">>
TWeek == <<"w", "e", "e", "k">>
TMonth == <<"m", "o", "n", "t", "h">>
TQuarter == <<"q", "u", "a", "r", "t", "e", "r">>
TYear == <<"y", "e", "a", "r">>

\* valid_ranges = ["7d", "30d", "90d", "6m", "1y"]
CanonicalRanges == {T7d, T30d, T90d, T6m, T1y}
\* range_map: week, month, quarter, year
RangeSynonyms == {TWeek, TMonth, TQuarter, TYear}

RangeMap(t) ==
    CASE t = TWeek -> T7d
      [] t = TMonth -> T30d
      [] t = TQuarter -> T90d
      [] t = TYear -> T1y
      [] OTHER -> t

\* SearchQueryPreprocessor._validate_time_range
preprocessor_validate_time_range(time_range) ==
    LET normalized_range == Strip(Lower(time_range))
    IN  IF normalized_range \in CanonicalRanges \cup RangeSynonyms
        THEN Ret(RangeMap(normalized_range))
        ELSE Ret(T30d)

\* SearchRequestValidator.validate_time_range
validator_validate_time_range(time_range) ==
    LET normalized == Strip(Lower(time_range))
    IN  IF time_range = <<>> THEN Ret(T30d)
        ELSE IF normalized \in RangeSynonyms THEN Ret(RangeMap(normalized))
        ELSE IF normalized \notin CanonicalRanges THEN Raised
        ELSE Ret(normalized)

\* SyncSearchRequest.validate_time_range (the pydantic validator of the route)
request_validate_time_range(v) ==
    IF Lower(v) \notin CanonicalRanges \cup RangeSynonyms THEN Raised
    ELSE Ret(Lower(v))

\* self.max_focus_areas = self.search_config.get("max_focus_areas", 10)
MaxFocusAreas == 10
\* len(cleaned_area) >= 3
MinAreaLen == 3
\* persona_config.focus_areas[:8]
DefaultAreaCount == 8
\* if len(v) > 10: raise ValueError("Too many focus areas. Maximum 10 allowed.")
RequestMaxFocusAreas == 10

\* re.sub(r'\s+', ' ', ...): every run of whitespace becomes one space
RECURSIVE CollapseWs(_)
CollapseWs(t) ==
    IF t = <<>> THEN <<>>
    ELSE IF IsWs(Head(t))
         THEN <<" ">> \o CollapseWs(LStrip(Tail(t)))
         ELSE <<Head(t)>> \o CollapseWs(Tail(t))

\* [\w\s\-\.]
IsAreaChar(ch) ==
    \/ \E i \in 1..Len(Lowers) : ch \in {Lowers[i], Uppers[i]}
    \/ ch \in Digits \cup {"_", "-", "."}
    \/ IsWs(ch)

\* SearchQueryPreprocessor._clean_focus_area
clean_focus_area(area) ==
    LET normal == CollapseWs(Strip(area))
        cleaned == SelectSeq(normal, IsAreaChar)
    IN  IF Len(cleaned) > 0
        THEN <<UpperCh(cleaned[1])>> \o Lower(Tail(cleaned))
        ELSE cleaned

\* the loop of _process_focus_areas_from_config over the supplied entries
RECURSIVE CleanedAreas(_)
CleanedAreas(areas) ==
    IF areas = <<>> THEN <<>>
    ELSE LET area == Head(areas)
             rest == CleanedAreas(Tail(areas))
         IN  IF ~IsStr(area) \/ area.s = <<>> THEN rest
             ELSE IF Len(clean_focus_area(area.s)) >= MinAreaLen
                  THEN <<clean_focus_area(area.s)>> \o rest
                  ELSE rest

\* The cleaned entries returned without the cap on their number.
process_focus_areas_uncapped(areas, config_areas) ==
    IF CleanedAreas(areas) = <<>> THEN Take(config_areas, DefaultAreaCount)
    ELSE CleanedAreas(areas)

\* SearchQueryPreprocessor._process_focus_areas_from_config
process_focus_areas_from_config(areas, config_areas) ==
    IF areas = <<>> THEN Take(config_areas, DefaultAreaCount)
    ELSE LET cleaned_areas == Take(CleanedAreas(areas), MaxFocusAreas)
         IN  IF cleaned_areas = <<>> THEN Take(config_areas, DefaultAreaCount)
             ELSE cleaned_areas

\* the loop of SearchRequestValidator.validate_focus_areas
RECURSIVE StrippedAreas(_)
StrippedAreas(areas) ==
    IF areas = <<>> THEN <<>>
    ELSE LET area == Head(areas)
             rest == StrippedAreas(Tail(areas))
         IN  IF ~IsStr(area) THEN rest
             ELSE IF Len(Strip(area.s)) >= MinAreaLen THEN <<Strip(area.s)>> \o rest
             ELSE rest

\* A value handed in as focus_areas: a list of entries, or something else.
ListOf(items) == [k |-> "list", s |-> items]
NotAList == [k |-> "nonlist", s |-> <<>>]

\* SearchRequestValidator.validate_focus_areas
validator_validate_focus_areas(v) ==
    IF v.k = "list" /\ v.s = <<>> THEN Ret(<<>>)
    ELSE IF v.k # "list" THEN Raised
    ELSE Ret(StrippedAreas(v.s))

\* [area.strip() for area in v if area and area.strip()]
RECURSIVE NonBlankAreas(_)
NonBlankAreas(areas) ==
    IF areas = <<>> THEN <<>>
    ELSE IF Strip(Head(areas).s) # <<>>
         THEN <<Strip(Head(areas).s)>> \o NonBlankAreas(Tail(areas))
         ELSE NonBlankAreas(Tail(areas))

\* SyncSearchRequest.focus_areas: Optional[List[str]] with its validator; None
\* is the empty list here.
request_validate_focus_areas(v) ==
    IF v.k # "list" \/ \E i \in 1..Len(v.s) : ~IsStr(v.s[i]) THEN Raised
    ELSE IF Len(v.s) > RequestMaxFocusAreas THEN Raised
    ELSE Ret(NonBlankAreas(v.s))

\* -------------------------------------------------------------- registry
\* PersonaConfigLoader._get_default_config: the names of the built-in profiles
BuiltinNames ==
    {"devops_engineer", "software_engineer", "ai_engineer", "product_owner",
     "product_manager"}

\* Persona names a configuration file defines.
FileNames == {"devops_engineer", "analyst"}

\* What a file holds under a persona name: a mapping (in one of two
\* versions), or a value that is not a mapping.
EntryKinds == {"v1", "v2", "bad"}

\* A parsed YAML document: not a mapping at the top; a mapping without a
\* "personas" key; with a "personas" value that is not a mapping; or with a
\* mapping of names to entries.
Document(shape, entries) == [kind |-> "doc", shape |-> shape, entries |-> entries]

\* the dict _get_default_config returns
DefaultConfig == Document("personas", [n \in BuiltinNames |-> "builtin"])

\* yaml.safe_load(file) or {}
EmptyMapping == Document("nopersonas", <<>>)

Documents ==
    {Document(sh, <<>>) : sh \in {"nonmapping", "nopersonas", "badpersonas"}}
    \cup {Document("personas", f) : f \in UNION {[D -> EntryKinds] : D \in SUBSET FileNames}}

\* What is at config_path: no file, a file that cannot be read, text that is
\* not YAML, an empty file, a document.
MissingFile == [kind |-> "missing", shape |-> "", entries |-> <<>>]
UnreadableFile == [kind |-> "unreadable", shape |-> "", entries |-> <<>>]
InvalidYaml == [kind |-> "invalid", shape |-> "", entries |-> <<>>]
EmptyFile == [kind |-> "empty", shape |-> "", entries |-> <<>>]

Sources == {MissingFile, UnreadableFile, InvalidYaml, EmptyFile} \cup Documents

\* PersonaConfigLoader._load_config: the value it leaves in config_data
LoadConfigData(src) ==
    CASE src.kind = "missing" -> DefaultConfig
      [] src.kind \in {"unreadable", "invalid"} -> DefaultConfig
      [] src.kind = "empty" -> EmptyMapping
      [] OTHER -> src

\* personas_config = self.config_data.get("personas", {}) and .items(): an
\* AttributeError when config_data or its "personas" value is not a mapping
ParseRaises(data) == data.shape \in {"nonmapping", "badpersonas"}

\* self.personas[persona_name] = persona_config
Put(registry, name, profile) ==
    [n \in DOMAIN registry \cup {name} |-> IF n = name THEN profile ELSE registry[n]]

\* The body of the loop of _parse_personas for one entry: a profile stored
\* under its name, or the entry skipped when building the profile raises.
ParseEntry(registry, name, entry) ==
    IF entry = "bad" THEN registry ELSE Put(registry, name, entry)

NoReload == [returned |-> "none", before |-> 0, after |-> 0]
NoReader == [state |-> "away", arrived_in_reload |-> FALSE, names |-> {}, seen |-> <<>>]

\* Another caller may take the event loop only where the running call
\* awaits; the loader's methods are synchronous and never do.
CanSwitchAnywhere(pc) == TRUE

CanSwitch(pc) == pc = "idle"

\* ------------------------------------------------------ prompt composition
\* PersonaConfig as _parse_personas builds it for the built-in
\* devops_engineer entry. A mapping is the sequence of its entries in
\* insertion order (topic_categories: the keys; search_modifiers: the lists).
\* A key missing from instructions is the empty sequence.
DevopsProfile ==
    [display_name |-> <<"DevOps Engineer">>,
     description |-> <<"Infrastructure and deployment focused AI search">>,
     search_patterns |-> <<"latest MLOps platforms", "GPU infrastructure updates",
                           "AI deployment tools", "container AI orchestration",
                           "AI model serving platforms", "GPU cost optimization">>,
     topic_categories |-> <<"infrastructure", "platforms", "cost_optimization">>,
     search_modifiers |-> << <<"breaking", "latest", "urgent">>,
                             <<"how to", "tutorial", "guide">> >>,
     primary_role |-> <<"AI search ", "assistant", " for DevOps Engineers">>,
     core_objectives |-> <<"Infrastructure insights", "Cost optimization", "Scalability">>,
     technical_depth |-> <<"advanced">>]

\* A persona_config.yaml entry that gives a display name only: every other
\* field takes the default of _parse_personas.
BareProfile ==
    [display_name |-> <<"Data Scientist">>, description |-> <<>>,
     search_patterns |-> <<>>, topic_categories |-> <<>>, search_modifiers |-> <<>>,
     primary_role |-> <<>>, core_objectives |-> <<>>, technical_depth |-> <<>>]

\* Entries of persona_config.yaml that supply one of the two sources of
\* alternatives and not the other, a modifier mapping whose first list is
\* empty, and a role that does not mention an assistant.
PatternOnlyProfile ==
    [BareProfile EXCEPT !.search_patterns = <<"model evaluation news">>,
                        !.primary_role = <<"Research ", "Assistant">>]
ModifierOnlyProfile ==
    [BareProfile EXCEPT !.search_modifiers = << <<>>, <<"breaking">>, <<"how to">> >>,
                        !.primary_role = <<"Analyst for data teams">>]
OneModifierProfile ==
    [DevopsProfile EXCEPT !.search_modifiers = << <<"latest">> >>,
                          !.search_patterns = <<>>,
                          !.primary_role = <<"Platform owner">>]

Profiles ==
    {DevopsProfile, BareProfile, PatternOnlyProfile, ModifierOnlyProfile, OneModifierProfile}

\* str.lower() of one word of a role
LowerWord(w) == IF w = "Assistant" THEN "assistant" ELSE w

\* "assistant" in primary_role.lower()
MentionsAssistant(role) == \E i \in 1..Len(role) : LowerWord(role[i]) = "assistant"

\* "\n".join(parts)
RECURSIVE JoinLines(_)
JoinLines(parts) == IF parts = <<>> THEN <<>>
                    ELSE IF Len(parts) = 1 THEN parts[1]
                    ELSE parts[1] \o <<"\n">> \o JoinLines(Tail(parts))

\* SearchPreprocessor._get_time_context
get_time_context(time_range) ==
    CASE time_range = T7d -> <<"past week">>
      [] time_range = T30d -> <<"past month">>
      [] time_range = T90d -> <<"past quarter">>
      [] time_range = T6m -> <<"past 6 months">>
      [] time_range = T1y -> <<"past year">>
      [] OTHER -> <<"recent period">>

\* SearchPreprocessor._get_persona_search_guidance_from_config
get_persona_search_guidance_from_config(persona_config) ==
    LET d == IF persona_config.description # <<>>
             THEN << <<"- ">> \o persona_config.description >> ELSE <<>>
        o == IF persona_config.core_objectives # <<>>
             THEN << <<"- Focus on: ">> \o Join(persona_config.core_objectives) >> ELSE <<>>
        r == IF persona_config.primary_role # <<>>
                /\ ~MentionsAssistant(persona_config.primary_role)
             THEN << <<"- Role context: ">> \o persona_config.primary_role >> ELSE <<>>
        p == IF persona_config.search_patterns # <<>>
             THEN << <<"- Key search areas: ">>
                     \o Join(Take(persona_config.search_patterns, 3)) >> ELSE <<>>
        c == IF persona_config.topic_categories # <<>>
             THEN << <<"- Topic categories: ">>
                     \o Join(Take(persona_config.topic_categories, 3)) >> ELSE <<>>
        guidance_parts == d \o o \o r \o p \o c
    IN  IF guidance_parts # <<>> THEN JoinLines(guidance_parts)
        ELSE <<"Provide comprehensive information relevant to ">>
               \o persona_config.display_name \o <<".">>

\* The loop over search_modifiers.items() of
\* _generate_alternative_queries_from_config.
RECURSIVE AppendModifiers(_, _, _)
AppendModifiers(alternatives, lists, primary_area) ==
    IF lists = <<>> THEN alternatives
    ELSE AppendModifiers(
             IF Head(lists) # <<>> /\ Len(alternatives) < 2
             THEN Append(alternatives, <<Head(lists)[1], " ", primary_area>>)
             ELSE alternatives,
             Tail(lists), primary_area)

\* The generic trend query: "Current trends and innovations in " and the
\* first three focus areas.
TrendQuery(focus_areas) ==
    <<"Current trends and innovations in ">> \o Join(Take(focus_areas, 3))

\* SearchPreprocessor._generate_alternative_queries_from_config
generate_alternative_queries_from_config(persona_config, focus_areas) ==
    LET a1 == IF persona_config.search_patterns # <<>>
              THEN << <<persona_config.search_patterns[1]>> >> ELSE <<>>
        a2 == IF persona_config.search_modifiers # <<>> /\ focus_areas # <<>>
              THEN AppendModifiers(a1, persona_config.search_modifiers, focus_areas[1])
              ELSE a1
        a3 == IF a2 = <<>> /\ Len(focus_areas) > 1
              THEN Append(a2, <<"Latest developments in ", focus_areas[1], " for ">>
                                \o persona_config.display_name)
              ELSE a2
        a4 == IF Len(a3) < 2 THEN Append(a3, TrendQuery(focus_areas)) ELSE a3
    IN  Take(a4, 2)

\* ------------------------------------------------------- response quality
\* re.search of a literal: the text holds the word.
HasSub(t, w) == \E i \in 0..(Len(t) - Len(w)) : SubSeq(t, i + 1, i + Len(w)) = w

\* re.search of a.*b: a, then b later on the same line ('.' matches no newline).
HasSeq(t, a, b) ==
    \E i \in 0..(Len(t) - Len(a) - Len(b)) :
        /\ SubSeq(t, i + 1, i + Len(a)) = a
        /\ \E j \in (i + Len(a))..(Len(t) - Len(b)) :
              /\ SubSeq(t, j + 1, j + Len(b)) = b
              /\ \A k \in (i + Len(a) + 1)..j : t[k] # "\n"

\* \s of the regular expressions
IsSpace(ch) == ch \in {" ", "\n", "\t"}

\* re.search(r'^\s*[-*]\s+', response, re.MULTILINE): a line that starts a
\* list item.
HasListLine(t) ==
    \E p \in 1..(Len(t) - 1) :
        /\ t[p] \in {"-", "*"}
        /\ IsSpace(t[p + 1])
        /\ \E q \in 1..p :
              /\ q = 1 \/ t[q - 1] = "\n"
              /\ \A k \in q..(p - 1) : IsSpace(t[k])

\* The number of newlines that end just before position i.
NewlinesBefore(t, i) ==
    LET others == {j \in 1..(i - 1) : t[j] # "\n"}
        last == IF others = {} THEN 0 ELSE CHOOSE j \in others : \A k \in others : k <= j
    IN  i - 1 - last

\* len(response.split('\n\n')) - 1: the separators found from left to right,
\* none overlapping another.
CountBlankLines(t) ==
    Cardinality({i \in 1..(Len(t) - 1) :
                    /\ t[i] = "\n" /\ t[i + 1] = "\n"
                    /\ NewlinesBefore(t, i) % 2 = 0})

\* The pictographs of the readability test, each one character.
Pictographs == {"U+1F4DA", "U+1F310", "U+1F4A1", "U+1F50D", "U+26A1", "U+1F4CB", "U+1F6E0"}

\* sum(indicators): the number of indicators that are true
RECURSIVE CountTrue(_)
CountTrue(indicators) ==
    IF indicators = <<>> THEN 0
    ELSE (IF Head(indicators) THEN 1 ELSE 0) + CountTrue(Tail(indicators))

\* A score s in [0, 1] is the integer s * ScoreScale, and a weight the
\* integer number of its hundredths: every quotient of the analysis (fifths,
\* thirds, quarters, a half) is exact.
ScoreScale == 60

\* sum(indicators) / len(indicators)
Fraction(indicators) == (CountTrue(indicators) * ScoreScale) \div Len(indicators)

\* ResponseQualityAnalyzer.__init__: quality_criteria
quality_criteria ==
    [completeness |-> 30, relevance |-> 25, readability |-> 20,
     source_attribution |-> 15, actionability |-> 10]

\* ResponseQualityAnalyzer._analyze_completeness
analyze_completeness(response) ==
    LET low == Lower(response)
    IN  Fraction(<< HasSeq(low, <<"k", "n", "o", "w", "l", "e", "d", "g", "e">>, <<"b", "a", "s", "e">>),
                    HasSeq(low, <<"l", "a", "t", "e", "s", "t">>, <<"d", "e", "v", "e", "l", "o", "p", "m", "e", "n", "t", "s">>),
                    HasSub(response, <<"#">>),
                    Len(response) > 500,
                    \/ HasSub(low, <<"s", "y", "n", "t", "h">>)
                    \/ HasSub(low, <<"r", "e", "c", "o", "m", "m", "e", "n", "d">>)
                    \/ HasSeq(low, <<"n", "e", "x", "t">>, <<"s", "t", "e", "p">>) >>)

\* persona_keywords of _analyze_relevance
PersonaKeywords(persona) ==
    CASE persona = "devops_engineer" ->
            <<<<"i", "n", "f", "r", "a", "s", "t", "r", "u", "c", "t", "u", "r", "e">>,
              <<"d", "e", "p", "l", "o", "y", "m", "e", "n", "t">>,
              <<"o", "p", "s">>,
              <<"s", "c", "a", "l", "i", "n", "g">>,
              <<"c", "o", "s", "t">>>>
      [] persona = "product_owner" ->
            <<<<"p", "r", "o", "d", "u", "c", "t">>,
              <<"f", "e", "a", "t", "u", "r", "e">>,
              <<"u", "s", "e", "r">>,
              <<"m", "a", "r", "k", "e", "t">>,
              <<"r", "o", "a", "d", "m", "a", "p">>>>
      [] OTHER -> <<>>

\* ResponseQualityAnalyzer._analyze_relevance
analyze_relevance(response, persona) ==
    LET low == Lower(response)
        keywords == PersonaKeywords(persona)
        matches == Cardinality({i \in 1..Len(keywords) : HasSub(low, keywords[i])})
        ratio == (matches * ScoreScale) \div Len(keywords)
    IN  IF keywords = <<>> THEN ScoreScale \div 2
        ELSE IF ratio > ScoreScale THEN ScoreScale ELSE ratio

\* ResponseQualityAnalyzer._analyze_readability
analyze_readability(response) ==
    Fraction(<< HasSub(response, <<"#">>),
                HasListLine(response),
                CountBlankLines(response) + 1 > 2,
                ~(Len(response) >= 200),
                \E i \in 1..Len(response) : response[i] \in Pictographs >>)

\* The metadata of a search: None (no mapping), a mapping without
\* sources_summary, and mappings whose sources_summary names the tools used.
SearchMetadata(mapping, sources, websearch, rag) ==
    [mapping |-> mapping, sources_summary |-> sources, websearch |-> websearch, rag |-> rag]
SearchMetadataInputs ==
    {SearchMetadata(FALSE, FALSE, FALSE, FALSE), SearchMetadata(TRUE, FALSE, FALSE, FALSE),
     SearchMetadata(TRUE, TRUE, TRUE, FALSE), SearchMetadata(TRUE, TRUE, TRUE, TRUE)}

\* metadata.get("sources_summary"): raises AttributeError unless metadata is
\* a mapping.
MetadataGet(metadata) ==
    IF ~metadata.mapping THEN Raised ELSE Ret(metadata.sources_summary)

\* The variant below that divides by two indicators.
analyze_source_attribution_halved(response, metadata) ==
    LET low == Lower(response)
        got == MetadataGet(metadata)
    IN  IF got.raised THEN got
        ELSE [raised |-> FALSE,
              s |-> (CountTrue(<< HasSeq(low, <<"#">>, <<"s", "o", "u", "r", "c", "e">>),
                                  \/ HasSub(low, <<"w", "e", "b", " ", "s", "e", "a", "r", "c", "h">>)
                                  \/ HasSub(low, <<"k", "n", "o", "w", "l", "e", "d", "g", "e", " ", "b", "a", "s", "e">>)
                                  \/ HasSub(low, <<"r", "a", "g">>),
                                  got.s >>) * ScoreScale) \div 2]

\* ResponseQualityAnalyzer._analyze_source_attribution
analyze_source_attribution(response, metadata) ==
    LET low == Lower(response)
        got == MetadataGet(metadata)
    IN  IF got.raised THEN got
        ELSE [raised |-> FALSE,
              s |-> Fraction(<< HasSeq(low, <<"#">>, <<"s", "o", "u", "r", "c", "e">>),
                                \/ HasSub(low, <<"w", "e", "b", " ", "s", "e", "a", "r", "c", "h">>)
                                  \/ HasSub(low, <<"k", "n", "o", "w", "l", "e", "d", "g", "e", " ", "b", "a", "s", "e">>)
                                  \/ HasSub(low, <<"r", "a", "g">>),
                                got.s >>)]

\* ResponseQualityAnalyzer._analyze_actionability
analyze_actionability(response) ==
    LET low == Lower(response)
    IN  Fraction(<< \/ HasSub(low, <<"r", "e", "c", "o", "m", "m", "e", "n", "d">>)
                    \/ HasSub(low, <<"s", "u", "g", "g", "e", "s", "t">>)
                    \/ HasSub(low, <<"s", "h", "o", "u", "l", "d">>)
                    \/ HasSub(low, <<"c", "o", "n", "s", "i", "d", "e", "r">>),
                    \/ HasSeq(low, <<"n", "e", "x", "t">>, <<"s", "t", "e", "p">>)
                    \/ HasSeq(low, <<"a", "c", "t", "i", "o", "n">>, <<"i", "t", "e", "m">>)
                    \/ HasSub(low, <<"i", "m", "p", "l", "e", "m", "e", "n", "t">>),
                    \/ HasSub(low, <<"s", "t", "r", "a", "t", "e", "g", "y">>)
                    \/ HasSub(low, <<"a", "p", "p", "r", "o", "a", "c", "h">>)
                    \/ HasSub(low, <<"m", "e", "t", "h", "o", "d">>),
                    \/ HasSeq(low, <<"h", "o", "w">>, <<"t", "o">>)
                    \/ HasSub(low, <<"g", "u", "i", "d", "e">>)
                    \/ HasSub(low, <<"t", "u", "t", "o", "r", "i", "a", "l">>) >>)

\* ResponseQualityAnalyzer._get_quality_grade, on overall_score * ScoreScale
\* * 100
get_quality_grade(score) ==
    IF score >= 5400 THEN "A+"
    ELSE IF score >= 4800 THEN "A"
    ELSE IF score >= 4200 THEN "B+"
    ELSE IF score >= 3600 THEN "B"
    ELSE IF score >= 3000 THEN "C+"
    ELSE IF score >= 2400 THEN "C"
    ELSE "D"

\* ResponseQualityAnalyzer.analyze_response: the record it returns, or the
\* exception that leaves it.
analyze_response(response, persona, metadata) ==
    LET attribution == analyze_source_attribution(response, metadata)
    IN  IF attribution.raised THEN attribution
        ELSE LET scores == [completeness |-> analyze_completeness(response),
                            relevance |-> analyze_relevance(response, persona),
                            readability |-> analyze_readability(response),
                            source_attribution |-> attribution.s,
                            actionability |-> analyze_actionability(response)]
                 overall_score ==
                     scores.completeness * quality_criteria.completeness
                       + scores.relevance * quality_criteria.relevance
                       + scores.readability * quality_criteria.readability
                       + scores.source_attribution * quality_criteria.source_attribution
                       + scores.actionability * quality_criteria.actionability
             IN  [raised |-> FALSE,
                  s |-> [scores |-> scores, overall_score |-> overall_score,
                         quality_grade |-> get_quality_grade(overall_score)]]

\* ------------------------------------------------------- report formatting
\* A report is the sequence of its pieces: a piece is a run of whitespace
\* (" ", "\n", "\n\n"), the bold mark "**", one character of a section body,
\* or a fixed phrase with no whitespace at its ends. The pictographs of the
\* headings are left out; "<utcnow>" and "<uuid4[:8]>" stand for the
\* timestamp and the report id.
IsWsPiece(p) == p \in {" ", "\n", "\n\n"}

\* SearchResponsePostprocessor._load_persona_templates, and
\* persona_templates.get(persona, persona_templates["default"])
TemplateOf(persona) ==
    IF persona \in {"devops_engineer", "software_engineer", "ai_engineer",
                    "product_owner", "product_manager"}
    THEN [include_header |-> TRUE, include_summary |-> TRUE, include_footer |-> TRUE]
    ELSE [include_header |-> TRUE, include_summary |-> FALSE, include_footer |-> TRUE]

\* The end of _extract_content_sections: a response with none of the three
\* sections goes to 'other' whole.
SectionsOf(kb, web, syn, response) ==
    [knowledge_base |-> kb, latest_developments |-> web, synthesis |-> syn,
     other |-> IF kb = <<>> /\ web = <<>> /\ syn = <<>> THEN response ELSE <<>>]

\* SearchResponsePostprocessor._create_footer
create_footer(persona) ==
    <<"---", "\n\n",
      "*This intelligence report was generated by SyncAI's persona-driven search system. Information combines real-time web search with curated knowledge base content.*",
      "\n\n", "**", "Optimized for:", "**", " ">> \o TitleOf(persona)
      \o <<"\n", "**", "Report ID:", "**", " ", "<uuid4[:8]>", "\n">>

\* SearchResponsePostprocessor._format_with_template
format_with_template(sections, template, persona) ==
    LET persona_display == TitleOf(persona)
        header == IF template.include_header
                  THEN <<"# SyncAI Intelligence Report:", " ">> \o persona_display
                         \o <<"\n\n", "*Generated: <utcnow> UTC*", "\n\n">>
                  ELSE <<>>
        summary == IF template.include_summary /\ sections.synthesis # <<>>
                   THEN <<"## Executive Summary", "\n\n">>
                          \o Take(sections.synthesis, 300) \o <<"...", "\n\n">>
                   ELSE <<>>
        kb_section == IF sections.knowledge_base # <<>>
                      THEN <<"## Knowledge Base Insights", "\n\n">>
                             \o sections.knowledge_base \o <<"\n\n">>
                      ELSE <<>>
        web_section == IF sections.latest_developments # <<>>
                       THEN <<"## Latest Developments", "\n\n">>
                              \o sections.latest_developments \o <<"\n\n">>
                       ELSE <<>>
        synthesis_section == IF sections.synthesis # <<>>
                             THEN <<"## Strategic Synthesis for", " ">> \o persona_display
                                    \o <<"\n\n">> \o sections.synthesis \o <<"\n\n">>
                             ELSE <<>>
        other_section == IF sections.other # <<>>
                         THEN <<"## Additional Information", "\n\n">>
                                \o sections.other \o <<"\n\n">>
                         ELSE <<>>
        footer == IF template.include_footer THEN create_footer(persona) ELSE <<>>
    IN  header \o summary \o kb_section \o web_section \o synthesis_section
          \o other_section \o footer

\* SearchResponsePostprocessor._create_attribution_section (agent_mode is
\* not given: "unknown")
create_attribution_section(sources_summary) ==
    <<"## Sources", "\n\n">>
      \o (IF sources_summary.websearch
          THEN <<"- Web Search: Latest online information and developments", "\n">>
          ELSE <<>>)
      \o (IF sources_summary.rag
          THEN <<"- Knowledge Base: Curated AI/ML information repository", "\n">>
          ELSE <<>>)
      \o <<"- Processing Mode:", " ", "Unknown", "\n">>

\* SearchResponsePostprocessor._add_source_attribution: metadata.get raises
\* AttributeError when metadata is None.
add_source_attribution(response, metadata) ==
    IF ~metadata.mapping THEN Raised
    ELSE IF metadata.sources_summary
    THEN Ret(response \o <<"\n\n">> \o create_attribution_section(metadata))
    ELSE Ret(response)

\* The pieces of t at the positions that pass the test, in order.
Kept(t, Keep(_)) ==
    LET at == SelectSeq([i \in 1..Len(t) |-> i], Keep)
    IN  [k \in 1..Len(at) |-> t[at[k]]]

\* re.sub(r'\s+', ' ', response): every run of whitespace becomes one space.
CollapseSpace(t) ==
    LET spaced == [i \in 1..Len(t) |-> IF IsWsPiece(t[i]) THEN " " ELSE t[i]]
        Keep(i) == ~IsWsPiece(t[i]) \/ i = Len(t) \/ ~IsWsPiece(t[i + 1])
    IN  Kept(spaced, Keep)

\* re.sub(r'\*\*\s+', '**', .) and re.sub(r'\s+\*\*', '**', .): no
\* whitespace next to a bold mark.
TightenBold(t) ==
    LET Keep(i) == ~(/\ IsWsPiece(t[i])
                     /\ \/ (i > 1 /\ t[i - 1] = "**")
                        \/ (i < Len(t) /\ t[i + 1] = "**"))
    IN  Kept(t, Keep)

\* str.strip() on the pieces
RECURSIVE LStripPieces(_)
LStripPieces(t) ==
    IF t # <<>> /\ IsWsPiece(Head(t)) THEN LStripPieces(Tail(t)) ELSE t
RECURSIVE RStripPieces(_)
RStripPieces(t) ==
    IF t # <<>> /\ IsWsPiece(t[Len(t)]) THEN RStripPieces(SubSeq(t, 1, Len(t) - 1)) ELSE t
StripPieces(t) == RStripPieces(LStripPieces(t))

\* SearchResponsePostprocessor._clean_formatting (after the first
\* substitution no newline is left for the second)
clean_formatting(response) == StripPieces(TightenBold(CollapseSpace(response)))

\* SearchResponsePostprocessor.process_search_response: the
\* formatted_response of the result, from the sections found in the enhanced
\* response. A failure on the way is caught and the raw response (or the
\* failure message) returned.
process_search_response(raw_response, sections, persona, search_metadata) ==
    LET formatted_response == format_with_template(sections, TemplateOf(persona), persona)
        attributed_response == add_source_attribution(formatted_response, search_metadata)
    IN  IF attributed_response.raised
        THEN IF raw_response # <<>> THEN raw_response
             ELSE <<"Processing failed for ", persona, ". Error: ", "AttributeError">>
        ELSE clean_formatting(attributed_response.s)

\* ------------------------------------------------------ compact transforms
\* response.split("\n") on the characters of a text
RECURSIVE SplitLines(_)
SplitLines(t) ==
    IF \A i \in 1..Len(t) : t[i] # "\n" THEN <<t>>
    ELSE LET at == CHOOSE i \in 1..Len(t) :
                       t[i] = "\n" /\ \A j \in 1..(i - 1) : t[j] # "\n"
         IN  <<SubSeq(t, 1, at - 1)>> \o SplitLines(SubSeq(t, at + 1, Len(t)))

\* The key updates of the variant below numbered as enumerate() counts, from 0.
RECURSIVE NumberedItemsFromZero(_, _)
NumberedItemsFromZero(lines, i) ==
    IF lines = <<>> THEN <<>>
    ELSE <<"**", ToString(i - 1), ".** ">> \o Head(lines) \o <<"\n">>
           \o NumberedItemsFromZero(Tail(lines), i + 1)

\* for i, line in enumerate(lines): key_updates += f"**{i+1}.** {line}\n",
\* from the i-th line on (i counted from 1)
RECURSIVE NumberedItems(_, _)
NumberedItems(lines, i) ==
    IF lines = <<>> THEN <<>>
    ELSE <<"**", ToString(i), ".** ">> \o Head(lines) \o <<"\n">>
           \o NumberedItems(Tail(lines), i + 1)

\* [line.strip() for line in response.split("\n") if line.strip()]
StrippedLines(response) ==
    LET all == SplitLines(response)
        Filled(line) == Strip(line) # <<>>
        kept == SelectSeq(all, Filled)
    IN  [k \in 1..Len(kept) |-> Strip(kept[k])]

\* The fixed pieces of the newsletter ("<today>" is the date; U+2022 is the
\* bullet and U+2014 the dash of the source).
KeyUpdatesHeading == "\n\n## Key Updates\n\n"
ActionItemsBlock ==
    "\n\n## Action Items\n\nU+2022 Review these updates\nU+2022 Plan follow-ups\nU+2022 See documentation for details"

\* SyncSearchAgent._transform_to_newsletter_format
transform_to_newsletter_format(response, persona) ==
    <<"# ">> \o TitleOf(persona) \o <<" Weekly Brief\n*", "<today>", "*">>
      \o <<KeyUpdatesHeading>> \o NumberedItems(StrippedLines(response), 1)
      \o <<ActionItemsBlock>>
      \o <<"\n---\n*Generated by SyncAI U+2014 Next brief: ", "<today>", "*">>

\* The loop below without its break.
RECURSIVE DailyBulletsUncapped(_, _)
DailyBulletsUncapped(lines, bullets) ==
    IF lines = <<>> THEN bullets
    ELSE DailyBulletsUncapped(
             Tail(lines),
             IF Strip(Head(lines)) # <<>>
             THEN Append(bullets, <<"**", ToString(Len(bullets) + 1), ".** ">>
                                    \o Strip(Head(lines)))
             ELSE bullets)

\* The loop of _transform_to_daily_brief_format over the lines: a bullet for
\* each line that is not blank, until there are three.
RECURSIVE DailyBullets(_, _)
DailyBullets(lines, bullets) ==
    IF lines = <<>> THEN bullets
    ELSE LET next == IF Strip(Head(lines)) # <<>>
                     THEN Append(bullets, <<"**", ToString(Len(bullets) + 1), ".** ">>
                                            \o Strip(Head(lines)))
                     ELSE bullets
         IN  IF Len(next) >= 3 THEN next ELSE DailyBullets(Tail(lines), next)

DailyAction == "\n\n**Action:** Review top developments."

\* focus_areas: None or a list
NoAreas == [k |-> "none", s |-> <<>>]

\* SyncSearchAgent._transform_to_daily_brief_format
transform_to_daily_brief_format(response, persona, areas) ==
    <<"# ">> \o TitleOf(persona) \o <<" Daily\n*", "<today>", "*\n\n">>
      \o JoinLines(DailyBullets(SplitLines(response), <<>>))
      \o <<DailyAction>>
      \o <<"\n\n*Focus: ">> \o (IF areas.s # <<>> THEN Join(areas.s) ELSE <<>>) \o <<"*">>

\* ------------------------------------------------------- streamed events
\* yield {"type": ..., ...}: an event of the streaming variant, by its type
Event(type) == [type |-> type]

\* The search_progress event (lines 230-236)
ProgressEvent(chunks, contents) ==
    [type |-> "search_progress", chunks_processed |-> chunks, content_chunks |-> contents]

\* The events of search_ai_info_stream up to the call of the upstream
\* (lines 163-204)
OpeningEvents(cfg) ==
    <<Event("search_started"),
      IF cfg # NoConfig THEN Event("persona_loaded") ELSE Event("warning"),
      Event("query_built"), Event("search_executing")>>

\* The events below with a failed stream reported as an error.
ClosingEventsErrorOnFailure(how) ==
    IF how = "failed" THEN <<Event("error")>>
    ELSE <<Event("search_completed"), Event("result")>>

\* The events after the loop (lines 244-269): the handler of the streaming
\* phase has turned a failure into text, so every way out of the loop ends
\* the same.
ClosingEvents(how) == <<Event("search_completed"), Event("result")>>

\* if content: ... if chunk_count % 50 == 0 (lines 224-229)
ProgressDue(has_content, chunks) == has_content /\ chunks % 50 = 0

\* ---------------------------------------------------------------- state
VARIABLES
    timeout,            \* SyncSearchAgent.timeout
    search_count,       \* SyncSearchAgent.search_count
    total_search_time,  \* SyncSearchAgent.total_search_time
    now,                \* time.time()
    phase,              \* "idle", "calling" (in turn.create), "streaming" (in the loop), "done"
    entry,              \* "http" (through the route) or "direct" (the agent's method called)
    mode,               \* "sync" (search_ai_info) or "stream" (search_ai_info_stream)
    request,            \* the request's persona, focus_areas, correlation_id, timeout
    correlation_id,     \* the local correlation_id of the search
    persona_config,     \* the local persona_config
    focus_areas,        \* the local focus_areas
    submitted,          \* the prompt handed to client.agents.turn.create, <<>> for none
    search_start,       \* start_time of search_ai_info / search_ai_info_stream
    start_time,         \* start_time of _execute_search_sync's loop
    hung,               \* the upstream has stopped delivering without terminating
    waits,              \* waiting steps observed since
    seen,               \* the chunks the generator has delivered, in order
    full_response,      \* full_response / search_results during the loop
    chunk_count,
    content_chunks,
    outcome,            \* how consumption ended: "none", "completed", "timeout", "failed"
    search_results,     \* what the streaming phase handed to the formatter
    result,             \* the record returned, or the final event of the stream
    response,           \* the route's SyncSearchResponse
    events,             \* the events emitted by the streaming variant        
    xchunk, xout, xpc,  \* the extraction specification: the chunk, the result, the step
    vin, vout, vpc,     \* the validation specification: the call, its outcome, the step
    source,             \* what is found at PersonaConfigLoader.config_path
    config_data,        \* PersonaConfigLoader.config_data
    personas,           \* PersonaConfigLoader.personas: name -> parsed profile
    rpc,                \* the loader's position: "load", "parse", "parsing", "idle", "aborted"
    rcall,              \* the call in progress or last made: "construct" or "reload"
    pending,            \* the entries of personas_config the loop has still to visit
    loaded_from,        \* the source the last _load_config read
    old_personas,       \* the registry when the last call began
    rresult,            \* what the last reload_config returned and logged
    reloads,            \* calls of reload_config so far
    registries,         \* the registry as each completed call left it
    reader,             \* a caller of get_available_personas / get_persona_config
    inv                 \* the search requests being served: each handler's position and locals

agentVars == <<timeout, search_count, total_search_time>>
requestVars == <<entry, mode, request, correlation_id, persona_config, focus_areas,
                 submitted, search_start>>
loopVars == <<start_time, hung, waits, seen, full_response, chunk_count, content_chunks>>
endVars == <<outcome, search_results, result, response, events>>
extractVars == <<xchunk, xout, xpc>>
validVars == <<vin, vout, vpc>>
registryVars == <<source, config_data, personas, rpc, rcall, pending, loaded_from,
                  old_personas, rresult, reloads, registries, reader>>
serveVars == <<inv>>
auxVars == <<validVars, registryVars, serveVars>>
searchVars == <<agentVars, now, phase, requestVars, loopVars, endVars>>
vars == <<searchVars, extractVars, auxVars>>

\* No validation call in progress.
NoCall == [fn |-> "none", arg |-> <<>>, cfg |-> <<>>]

ValidIdle == vin = NoCall /\ vout = Ret(<<>>) /\ vpc = "idle"

\* The loader not under study: constructed from the built-in profiles.
RegistryIdle ==
    /\ source = MissingFile
    /\ config_data = DefaultConfig
    /\ personas = [n \in BuiltinNames |-> "builtin"]
    /\ rpc = "idle"
    /\ rcall = "construct"
    /\ pending = {}
    /\ loaded_from = MissingFile
    /\ old_personas = <<>>
    /\ rresult = NoReload
    /\ reloads = 0
    /\ registries = <<>>
    /\ reader = NoReader

\* A request not yet received.
NoInvocation ==
    [pc |-> "new", mode |-> "none", req_timeout |-> <<>>, start |-> 0, enforced |-> 0,
     elapsed |-> 0, timeout_used |-> 0]

ServeIdle == inv = [i \in 1..MaxInvocations |-> NoInvocation]

AuxIdle == ValidIdle /\ RegistryIdle /\ ServeIdle

Request(persona, fa, cid, t) ==
    [persona |-> persona, focus_areas |-> fa, correlation_id |-> cid, timeout |-> t]

\* The requests of the search specification: both personas, and with each
\* every pair of values of two of the other fields.
Requests ==
    { r \in [persona : Personas, focus_areas : FocusInputs,
             correlation_id : CorrelationInputs, timeout : TimeoutInputs] :
        (r.focus_areas = <<>>) = ((r.correlation_id = NoneId) = (r.timeout = <<>>)) }

\* The agent's timeout when a request arrives: the constructor's default, or
\* what the route stored for an earlier request.
AgentTimeouts == {DefaultTimeout} \cup {t[1] : t \in TimeoutInputs \ {<<>>}}

Init ==
    /\ timeout \in AgentTimeouts
    /\ search_count = 0
    /\ total_search_time = 0
    /\ now = 0
    /\ phase = "idle"
    /\ entry = "direct"
    /\ mode = "sync"
    /\ request = [persona |-> "devops_engineer", focus_areas |-> <<>>,
                  correlation_id |-> NoneId, timeout |-> <<>>]
    /\ correlation_id = ""
    /\ persona_config = NoConfig
    /\ focus_areas = <<>>
    /\ submitted = <<>>
    /\ search_start = 0
    /\ start_time = 0
    /\ hung = FALSE
    /\ waits = 0
    /\ seen = <<>>
    /\ full_response = <<>>
    /\ chunk_count = 0
    /\ content_chunks = 0
    /\ outcome = "none"
    /\ search_results = <<>>
    /\ result = NoResult
    /\ response = NoResponse
    /\ events = <<>>
    /\ xchunk = EmptyChunk
    /\ xout = <<>>
    /\ xpc = "idle"
    /\ AuxIdle

\* The accumulator overwritten by the last elapsed time instead of increased.
UpdateSearchStatsOverwriting(elapsed) ==
    /\ search_count' = search_count + 1
    /\ total_search_time' = elapsed

\* _update_search_stats
UpdateSearchStats(elapsed) ==
    /\ search_count' = search_count + 1
    /\ total_search_time' = total_search_time + elapsed

\* The route rejects a persona that is not available before it touches the
\* agent (search_technology_intelligence lines 226-232; event_generator lines
\* 322-332).
RejectUnknownPersona(m, r) ==
    /\ phase = "idle"
    /\ r.persona \notin AvailablePersonas
    /\ phase' = "done"
    /\ entry' = "http"
    /\ mode' = m
    /\ request' = r
    /\ correlation_id' = ""
    /\ persona_config' = NoConfig
    /\ focus_areas' = <<>>
    /\ submitted' = <<>>
    /\ search_start' = now
    /\ start_time' = now
    /\ hung' = FALSE
    /\ waits' = 0
    /\ seen' = <<>>
    /\ full_response' = <<>>
    /\ chunk_count' = 0
    /\ content_chunks' = 0
    /\ outcome' = "none"
    /\ search_results' = <<>>
    /\ result' = NoResult
    /\ response' = IF m = "sync" THEN UnknownPersonaResponse ELSE NoResponse
    /\ events' = IF m = "stream" THEN <<Event("error")>> ELSE <<>>
    /\ UNCHANGED <<agentVars, now, extractVars, auxVars>>

\* A search begins: the route sets the agent's timeout from the request
\* (lines 239-242, 334-337), then search_ai_info / search_ai_info_stream runs
\* up to the call of client.agents.turn.create (lines 35-50, 160-216).
StartSearch(e, m, r) ==
    /\ phase = "idle"
    /\ e = "http" => r.persona \in AvailablePersonas
    /\ LET cfg == get_persona_config(r.persona)
           fa == EffectiveFocusAreas(r.persona, r.focus_areas)
       IN  /\ timeout' = IF e = "http" /\ r.timeout # <<>> THEN r.timeout[1] ELSE timeout
           /\ persona_config' = cfg
           /\ focus_areas' = fa
           /\ submitted' = build_working_search_query(r.persona, cfg, fa)
           /\ events' = IF m = "stream"
                        THEN (IF e = "http" THEN <<Event("started")>> ELSE <<>>)
                             \o OpeningEvents(cfg)
                        ELSE <<>>
    /\ phase' = "calling"
    /\ entry' = e
    /\ mode' = m
    /\ request' = r
    /\ correlation_id' = CorrelationIdOrFresh(r.correlation_id)
    /\ search_start' = now
    /\ start_time' = now
    /\ hung' = FALSE
    /\ waits' = 0
    /\ seen' = <<>>
    /\ full_response' = <<>>
    /\ chunk_count' = 0
    /\ content_chunks' = 0
    /\ outcome' = "none"
    /\ search_results' = <<>>
    /\ result' = NoResult
    /\ response' = NoResponse
    /\ UNCHANGED <<search_count, total_search_time, now, extractVars, auxVars>>

\* The rest of the handler once the streaming phase has produced its string:
\* format, update the statistics, build the record and (through the route) the
\* HTTP response; the streaming variant emits search_completed and result.
Finish(how, text, t) ==
    LET res == SearchResult(request.persona, persona_config, focus_areas, correlation_id,
                            text, t - search_start)
    IN  /\ phase' = "done"
        /\ outcome' = how
        /\ search_results' = text
        /\ result' = res
        /\ UpdateSearchStats(t - search_start)
        /\ response' = IF mode = "sync" /\ entry = "http"
                       THEN RouteResponse(res, request.timeout) ELSE NoResponse
        /\ events' = IF mode = "stream" THEN events \o ClosingEvents(how) ELSE events
        /\ UNCHANGED <<timeout, requestVars, extractVars, auxVars>>

\* client.agents.turn.create returns the generator; the loop starts its clock.
CreateReturns ==
    /\ phase = "calling"
    /\ phase' = "streaming"
    /\ start_time' = now
    /\ UNCHANGED <<agentVars, now, requestVars, hung, waits, seen, full_response,
                   chunk_count, content_chunks, endVars, extractVars, auxVars>>

\* client.agents.turn.create raises: the handler of the streaming phase turns
\* the exception into text (lines 333-335, 240-242).
CreateRaises(err) ==
    /\ phase = "calling"
    /\ Finish("failed", SearchFailed(err), now)
    /\ UNCHANGED <<now, loopVars>>

\* One pass of the body of `for chunk in generator` of _execute_search_sync
\* (lines 311-323): the upstream delivers chunk ch after d seconds.
SyncChunk(ch, d) ==
    /\ phase = "streaming" /\ mode = "sync" /\ ~hung
    /\ chunk_count < MaxChunks
    /\ now' = now + d
    /\ seen' = Append(seen, ch)
    /\ chunk_count' = chunk_count + 1
    /\ UNCHANGED <<start_time, hung, waits>>
    /\ IF DeadlineExceeded(now', start_time, timeout)
       THEN /\ Finish("timeout", SearchReturn(full_response, chunk_count'), now')
            /\ UNCHANGED <<full_response, content_chunks>>
       ELSE LET o == ExtractOutcome(ch)
            IN  IF o.raised
                THEN /\ Finish("failed", SearchFailed("ExtractionError"), now')
                     /\ UNCHANGED <<full_response, content_chunks>>
                ELSE /\ full_response' = IF o.s # <<>> THEN Accumulate(full_response, o.s)
                                         ELSE full_response
                     /\ content_chunks' = IF o.s # <<>> THEN content_chunks + 1
                                          ELSE content_chunks
                     /\ UNCHANGED <<agentVars, phase, requestVars, endVars, extractVars, auxVars>>

\* One pass of the body of `for chunk in generator` of search_ai_info_stream
\* (lines 221-236): no clock is read.
ConsumeStreamChunk(ch, d, limit, history) ==
    /\ phase = "streaming" /\ mode = "stream" /\ ~hung
    /\ chunk_count < limit
    /\ now' = now + d
    /\ seen' = history
    /\ chunk_count' = chunk_count + 1
    /\ UNCHANGED <<start_time, hung, waits>>
    /\ LET o == ExtractOutcome(ch)
       IN  IF o.raised
           THEN /\ Finish("failed", SearchFailed("ExtractionError"), now')
                /\ UNCHANGED <<full_response, content_chunks>>
           ELSE /\ full_response' = IF o.s # <<>> THEN Accumulate(full_response, o.s)
                                    ELSE full_response
                /\ content_chunks' = IF o.s # <<>> THEN content_chunks + 1
                                     ELSE content_chunks
                /\ events' = IF ProgressDue(o.s # <<>>, chunk_count')
                             THEN Append(events, ProgressEvent(chunk_count', content_chunks'))
                             ELSE events
                /\ UNCHANGED <<agentVars, phase, requestVars, outcome, search_results,
                               result, response, extractVars, auxVars>>

\* The upstream delivers chunk ch after d seconds; the chunks delivered are
\* kept in seen.
StreamChunk(ch, d) == ConsumeStreamChunk(ch, d, MaxChunks, Append(seen, ch))

\* The generator is exhausted after d seconds: the loop ends normally. The
\* sync path strips the text or substitutes its message (lines 325-331); the
\* streaming variant hands search_results on as accumulated.
EndOfStream ==
    /\ phase = "streaming" /\ ~hung
    /\ Finish("completed",
              IF mode = "sync" THEN SearchReturn(full_response, chunk_count)
              ELSE full_response,
              now)
    /\ UNCHANGED <<now, loopVars>>

\* The generator raises while iterated (a transport error during streaming).
UpstreamError(err) ==
    /\ phase = "streaming" /\ ~hung
    /\ Finish("failed", SearchFailed(err), now)
    /\ UNCHANGED <<now, loopVars>>

\* The upstream stops delivering chunks without ending the stream.
Hang ==
    /\ phase = "streaming" /\ ~hung
    /\ hung' = TRUE
    /\ UNCHANGED <<agentVars, now, phase, requestVars, start_time, waits, seen,
                   full_response, chunk_count, content_chunks, endVars, extractVars, auxVars>>

\* Time passes while the consumer is blocked in next(generator).
Wait(d) ==
    /\ phase = "streaming" /\ hung
    /\ waits < MaxWaits
    /\ d > 0
    /\ now' = now + d
    /\ waits' = waits + 1
    /\ UNCHANGED <<agentVars, phase, requestVars, start_time, hung, seen,
                   full_response, chunk_count, content_chunks, endVars, extractVars, auxVars>>

Next ==
    \/ \E m \in {"sync", "stream"}, r \in Requests : RejectUnknownPersona(m, r)
    \/ \E e \in {"http", "direct"}, m \in {"sync", "stream"}, r \in Requests : StartSearch(e, m, r)
    \/ CreateReturns
    \/ \E err \in Errors : CreateRaises(err)
    \/ \E ch \in StreamChunks, d \in Delays : SyncChunk(ch, d)
    \/ \E ch \in StreamChunks, d \in Delays : StreamChunk(ch, d)
    \/ EndOfStream
    \/ \E err \in Errors : UpstreamError(err)
    \/ Hang
    \/ \E d \in Delays : Wait(d)

Spec == Init /\ [][Next]_vars

\* The system does not stop while a step is possible: the consumer runs when
\* a chunk is there, and time passes.
FairSpec == Init /\ [][Next]_vars /\ WF_vars(Next)

\* ------------------------------------------- the extraction specification
\* _extract_content_from_chunk applied to one chunk drawn from Chunks(MaxPresent).
InitExtract ==
    /\ timeout = DefaultTimeout
    /\ search_count = 0
    /\ total_search_time = 0
    /\ now = 0
    /\ phase = "idle"
    /\ entry = "direct"
    /\ mode = "sync"
    /\ request = Request("devops_engineer", <<>>, NoneId, <<>>)
    /\ correlation_id = ""
    /\ persona_config = NoConfig
    /\ focus_areas = <<>>
    /\ submitted = <<>>
    /\ search_start = 0
    /\ start_time = 0
    /\ hung = FALSE
    /\ waits = 0
    /\ seen = <<>>
    /\ full_response = <<>>
    /\ chunk_count = 0
    /\ content_chunks = 0
    /\ outcome = "none"
    /\ search_results = <<>>
    /\ result = NoResult
    /\ response = NoResponse
    /\ events = <<>>
    /\ xchunk \in Chunks(MaxPresent)
    /\ xout = <<>>
    /\ xpc = "ready"
    /\ AuxIdle

ExtractContent ==
    /\ xpc = "ready"
    /\ xout' = ExtractOutcome(xchunk).s
    /\ xpc' = "done"
    /\ UNCHANGED <<searchVars, xchunk, auxVars>>

NextExtract == ExtractContent

ExtractSpec == InitExtract /\ [][NextExtract]_vars

\* ------------------------------------------- the validation specification
\* One call of one validation function on one input.
Call(fn, arg, cfg) == [fn |-> fn, arg |-> arg, cfg |-> cfg]

\* Time-range inputs: every token, as written, capitalised, in capitals and
\* padded with blanks; the empty string; two unknown words.
Capitalised(t) == IF t = <<>> THEN t ELSE <<UpperCh(t[1])>> \o Tail(t)
Capitals(t) == [i \in 1..Len(t) |-> UpperCh(t[i])]
Padded(t) == <<" ">> \o t \o <<" ">>

TimeRangeWords ==
    CanonicalRanges \cup RangeSynonyms \cup {<<>>, <<"b", "o", "g", "u", "s">>, <<"2", "d">>}

TimeRangeInputs ==
    TimeRangeWords \cup {Capitalised(t) : t \in TimeRangeWords}
        \cup {Capitals(t) : t \in TimeRangeWords} \cup {Padded(t) : t \in TimeRangeWords}

\* Focus-area entries: not a string, empty, too short, too short once
\* cleaned, needing whitespace and case normalised, ending in a stripped
\* character.
AreaEntries ==
    { NonStr, Str(<<>>), Str(<<"a", "b">>), Str(<<" ", "a", "!", "b", " ">>),
      Str(<<"g", "p", "u", " ", " ", "O", "p", "s">>), Str(<<"a", "b", " ", "!">>) }

\* Lists of up to MaxAreas entries that alternate between two entries.
AreaLists ==
    { [i \in 1..n |-> IF i % 2 = 1 THEN e1 ELSE e2] :
        n \in 0..MaxAreas, e1 \in AreaEntries, e2 \in AreaEntries }

\* persona_config.focus_areas: none, four, the built-in devops_engineer's nine.
ConfigAreaLists ==
    { <<>>, Take(DevopsConfig.focus_areas, 4), DevopsConfig.focus_areas }

Calls ==
    {Call(fn, t, <<>>) :
        fn \in {"preprocessor_time_range", "validator_time_range", "request_time_range"},
        t \in TimeRangeInputs}
    \cup {Call("process_focus_areas", ListOf(l), c) : l \in AreaLists, c \in ConfigAreaLists}
    \cup {Call(fn, v, <<>>) :
            fn \in {"validator_focus_areas", "request_focus_areas"},
            v \in {ListOf(l) : l \in AreaLists} \cup {NotAList}}

SearchIdle ==
    /\ timeout = DefaultTimeout
    /\ search_count = 0
    /\ total_search_time = 0
    /\ now = 0
    /\ phase = "idle"
    /\ entry = "direct"
    /\ mode = "sync"
    /\ request = Request("devops_engineer", <<>>, NoneId, <<>>)
    /\ correlation_id = ""
    /\ persona_config = NoConfig
    /\ focus_areas = <<>>
    /\ submitted = <<>>
    /\ search_start = 0
    /\ start_time = 0
    /\ hung = FALSE
    /\ waits = 0
    /\ seen = <<>>
    /\ full_response = <<>>
    /\ chunk_count = 0
    /\ content_chunks = 0
    /\ outcome = "none"
    /\ search_results = <<>>
    /\ result = NoResult
    /\ response = NoResponse
    /\ events = <<>>

ExtractIdle == xchunk = EmptyChunk /\ xout = <<>> /\ xpc = "idle"

InitValidate ==
    /\ SearchIdle
    /\ ExtractIdle
    /\ vin \in Calls
    /\ vout = Ret(<<>>)
    /\ vpc = "ready"
    /\ RegistryIdle
    /\ ServeIdle

Validated(fn, out) ==
    /\ vpc = "ready"
    /\ vin.fn = fn
    /\ vout' = out
    /\ vpc' = "done"
    /\ UNCHANGED <<searchVars, extractVars, vin, registryVars, serveVars>>

PreprocessorValidateTimeRange ==
    Validated("preprocessor_time_range", preprocessor_validate_time_range(vin.arg))

ValidatorValidateTimeRange ==
    Validated("validator_time_range", validator_validate_time_range(vin.arg))

RequestValidateTimeRange ==
    Validated("request_time_range", request_validate_time_range(vin.arg))

ProcessFocusAreas ==
    Validated("process_focus_areas", Ret(process_focus_areas_from_config(vin.arg.s, vin.cfg)))

ValidatorValidateFocusAreas ==
    Validated("validator_focus_areas", validator_validate_focus_areas(vin.arg))

RequestValidateFocusAreas ==
    Validated("request_focus_areas", request_validate_focus_areas(vin.arg))

NextValidate ==
    \/ PreprocessorValidateTimeRange
    \/ ValidatorValidateTimeRange
    \/ RequestValidateTimeRange
    \/ ProcessFocusAreas
    \/ ValidatorValidateFocusAreas
    \/ RequestValidateFocusAreas

ValidateSpec == InitValidate /\ [][NextValidate]_vars

\* --------------------------------------------- the registry specification
\* PersonaConfigLoader constructed on a source, then reloaded while the source
\* is edited and another caller of the event loop reads the registry.
InitRegistry ==
    /\ SearchIdle
    /\ ExtractIdle
    /\ ValidIdle
    /\ source \in Sources
    /\ config_data = EmptyMapping
    /\ personas = <<>>
    /\ rpc = "load"
    /\ rcall = "construct"
    /\ pending = {}
    /\ loaded_from = MissingFile
    /\ old_personas = <<>>
    /\ rresult = NoReload
    /\ reloads = 0
    /\ registries = <<>>
    /\ reader = NoReader
    /\ ServeIdle

notRegistryVars == <<searchVars, extractVars, validVars, serveVars>>

\* _load_config
LoadConfig ==
    /\ rpc = "load"
    /\ config_data' = LoadConfigData(source)
    /\ loaded_from' = source
    /\ rpc' = "parse"
    /\ UNCHANGED <<source, personas, rcall, pending, old_personas, rresult, reloads,
                   registries, reader, notRegistryVars>>

\* _parse_personas up to its loop. An exception here leaves __init__, or is
\* caught by reload_config, which returns False.
StartParse ==
    /\ rpc = "parse"
    /\ IF ParseRaises(config_data)
       THEN /\ rpc' = IF rcall = "construct" THEN "aborted" ELSE "idle"
            /\ rresult' = IF rcall = "reload"
                          THEN [returned |-> "False", before |-> 0, after |-> 0]
                          ELSE rresult
            /\ registries' = IF rcall = "reload" THEN Append(registries, personas)
                             ELSE registries
            /\ UNCHANGED pending
       ELSE /\ rpc' = "parsing"
            /\ pending' = DOMAIN config_data.entries
            /\ UNCHANGED <<rresult, registries>>
    /\ UNCHANGED <<source, config_data, personas, rcall, loaded_from, old_personas,
                   reloads, reader, notRegistryVars>>

\* One iteration of the loop of _parse_personas.
ParsePersona(name) ==
    /\ rpc = "parsing"
    /\ name \in pending
    /\ personas' = ParseEntry(personas, name, config_data.entries[name])
    /\ pending' = pending \ {name}
    /\ UNCHANGED <<source, config_data, rpc, rcall, loaded_from, old_personas, rresult,
                   reloads, registries, reader, notRegistryVars>>

\* The loop is over: __init__ returns, or reload_config logs the counts and
\* returns True.
EndParse ==
    /\ rpc = "parsing"
    /\ pending = {}
    /\ rpc' = "idle"
    /\ rresult' = IF rcall = "reload"
                  THEN [returned |-> "True",
                        before |-> Cardinality(DOMAIN old_personas),
                        after |-> Cardinality(DOMAIN personas)]
                  ELSE rresult
    /\ registries' = Append(registries, personas)
    /\ UNCHANGED <<source, config_data, personas, rcall, pending, loaded_from,
                   old_personas, reloads, reader, notRegistryVars>>

\* reload_config is called.
ReloadConfig ==
    /\ rpc = "idle"
    /\ reloads < MaxReloads
    /\ reloads' = reloads + 1
    /\ rcall' = "reload"
    /\ old_personas' = personas
    /\ rpc' = "load"
    /\ UNCHANGED <<source, config_data, personas, pending, loaded_from, rresult,
                   registries, reader, notRegistryVars>>

\* The file at config_path is replaced, between two calls of the loader.
EditSource(src) ==
    /\ rpc = "idle"
    /\ reloads < MaxReloads
    /\ src # source
    /\ source' = src
    /\ UNCHANGED <<config_data, personas, rpc, rcall, pending, loaded_from, old_personas,
                   rresult, reloads, registries, reader, notRegistryVars>>

\* A request that will read the registry arrives; its handler waits for the
\* event loop.
ReaderArrives ==
    /\ reader.state = "away"
    /\ rcall = "reload" \/ rpc = "idle"
    /\ reader' = [state |-> "waiting", arrived_in_reload |-> (rcall = "reload" /\ rpc # "idle"),
                  names |-> {}, seen |-> <<>>]
    /\ UNCHANGED <<source, config_data, personas, rpc, rcall, pending, loaded_from,
                   old_personas, rresult, reloads, registries, notRegistryVars>>

\* The handler runs: get_available_personas, then get_persona_config for each
\* name, with no await between them.
ReaderReads ==
    /\ reader.state = "waiting"
    /\ CanSwitch(rpc)
    /\ reader' = [reader EXCEPT !.state = "read", !.names = DOMAIN personas,
                                !.seen = personas]
    /\ UNCHANGED <<source, config_data, personas, rpc, rcall, pending, loaded_from,
                   old_personas, rresult, reloads, registries, notRegistryVars>>

\* The reader's request is answered; another may arrive.
ReaderLeaves ==
    /\ reader.state = "read"
    /\ rpc = "idle"
    /\ reader' = NoReader
    /\ UNCHANGED <<source, config_data, personas, rpc, rcall, pending, loaded_from,
                   old_personas, rresult, reloads, registries, notRegistryVars>>

NextRegistry ==
    \/ LoadConfig
    \/ StartParse
    \/ \E name \in FileNames \cup BuiltinNames : ParsePersona(name)
    \/ EndParse
    \/ ReloadConfig
    \/ \E src \in Sources : EditSource(src)
    \/ ReaderArrives
    \/ ReaderReads
    \/ ReaderLeaves

RegistrySpec == InitRegistry /\ [][NextRegistry]_vars

\* ---------------------------------------------- the serving specification
\* Several search requests handled by the one SyncSearchAgent on the server's
\* event loop. A handler runs until it awaits: search_technology_intelligence
\* with search_ai_info never suspends; event_generator with
\* search_ai_info_stream suspends at each event it yields.
\* Seconds a search spends consuming the upstream's stream.
SearchDurations == {0, 10, 20}

InitServe ==
    /\ SearchIdle
    /\ ExtractIdle
    /\ ValidIdle
    /\ RegistryIdle
    /\ ServeIdle

notAgentVars == <<phase, requestVars, loopVars, endVars, extractVars, validVars, registryVars>>

\* The timeout field of the requests: null, and values at and beyond both
\* ends of the range.
ServeTimeouts == {<<>>, <<9>>, <<10>>, <<120>>, <<121>>}

\* The validator below without its upper limit.
request_validate_timeout_unbounded(v) ==
    IF v # <<>> /\ v[1] < 10 THEN Raised ELSE Ret(v)

\* SyncSearchRequest.validate_timeout: the value, or ValueError (the request
\* is answered 422 and no handler runs).
request_validate_timeout(v) ==
    IF v # <<>> /\ (v[1] < 10 \/ v[1] > 120) THEN Raised ELSE Ret(v)

\* A request whose timeout the model refuses: the route is not entered.
RejectRequest(i, t) ==
    /\ inv[i].pc = "new"
    /\ request_validate_timeout(t).raised
    /\ inv' = [inv EXCEPT ![i] =
                  [NoInvocation EXCEPT !.pc = "rejected", !.req_timeout = t]]
    /\ UNCHANGED <<agentVars, now, notAgentVars>>

\* if request.timeout: sync_agent.timeout = request.timeout
TimeoutAfterRequest(agent_timeout, request_timeout) ==
    IF request_timeout # <<>> THEN request_timeout[1] ELSE agent_timeout

\* "timeout_used": request.timeout or 60
TimeoutUsed(request_timeout) ==
    IF request_timeout # <<>> THEN request_timeout[1] ELSE 60

\* POST /search/{persona}: the route stores the request's timeout in the
\* agent, search_ai_info runs to its end (the stream takes d seconds, checked
\* against self.timeout), the statistics are updated and the response built.
ServeSearch(i, m, t, d) ==
    /\ inv[i].pc = "new"
    /\ ~request_validate_timeout(t).raised
    /\ timeout' = TimeoutAfterRequest(timeout, t)
    /\ now' = now + d
    /\ UpdateSearchStats(d)
    /\ inv' = [inv EXCEPT ![i] =
                  [pc |-> "done", mode |-> m, req_timeout |-> t, start |-> now,
                   enforced |-> TimeoutAfterRequest(timeout, t), elapsed |-> d,
                   timeout_used |-> TimeoutUsed(t)]]
    /\ UNCHANGED notAgentVars

ServeSync(i, t, d) == ServeSearch(i, "sync", t, d)

\* POST /search/{persona}/newsletter: the route stores the request's timeout
\* in the agent (lines 436-438); search_ai_info_newsletter runs search_ai_info
\* and transforms its text.
ServeNewsletter(i, t, d) == ServeSearch(i, "newsletter", t, d)

\* POST /search/{persona}/stream: event_generator stores the request's timeout
\* in the agent and yields "started".
StreamBegin(i, t) ==
    /\ inv[i].pc = "new"
    /\ ~request_validate_timeout(t).raised
    /\ timeout' = TimeoutAfterRequest(timeout, t)
    /\ inv' = [inv EXCEPT ![i] =
                  [NoInvocation EXCEPT !.pc = "started", !.mode = "stream",
                                       !.req_timeout = t]]
    /\ UNCHANGED <<search_count, total_search_time, now, notAgentVars>>

\* search_ai_info_stream starts (start_time = time.time()) and yields its
\* first events, up to "search_executing".
StreamOpen(i) ==
    /\ inv[i].pc = "started"
    /\ inv' = [inv EXCEPT ![i].pc = "executing", ![i].start = now]
    /\ UNCHANGED <<agentVars, now, notAgentVars>>

\* The loop over the upstream's chunks, which takes d seconds and reads no
\* clock, then "search_completed" is yielded.
StreamConsume(i, d) ==
    /\ inv[i].pc = "executing"
    /\ now' = now + d
    /\ inv' = [inv EXCEPT ![i].pc = "streamed"]
    /\ UNCHANGED <<agentVars, notAgentVars>>

\* The response is formatted, the statistics are updated and "result" is
\* yielded.
StreamCount(i) ==
    /\ inv[i].pc = "streamed"
    /\ UpdateSearchStats(now - inv[i].start)
    /\ inv' = [inv EXCEPT ![i].pc = "counted", ![i].elapsed = now - inv[i].start]
    /\ UNCHANGED <<timeout, now, notAgentVars>>

\* The generator is exhausted: the response ends.
StreamEnd(i) ==
    /\ inv[i].pc = "counted"
    /\ inv' = [inv EXCEPT ![i].pc = "done"]
    /\ UNCHANGED <<agentVars, now, notAgentVars>>

\* The client goes away while the handler is suspended: the generator is
\* closed where it stands.
StreamAbandoned(i) ==
    /\ inv[i].pc \in {"started", "executing", "streamed"}
    /\ inv' = [inv EXCEPT ![i].pc = "abandoned"]
    /\ UNCHANGED <<agentVars, now, notAgentVars>>

NextServe ==
    \E i \in 1..MaxInvocations :
        \/ \E t \in ServeTimeouts : RejectRequest(i, t)
        \/ \E t \in ServeTimeouts, d \in SearchDurations : ServeSync(i, t, d)
        \/ \E t \in ServeTimeouts, d \in SearchDurations : ServeNewsletter(i, t, d)
        \/ \E t \in ServeTimeouts : StreamBegin(i, t)
        \/ StreamOpen(i)
        \/ \E d \in SearchDurations : StreamConsume(i, d)
        \/ StreamCount(i)
        \/ StreamEnd(i)
        \/ StreamAbandoned(i)

ServeSpec == InitServe /\ [][NextServe]_vars

\* ------------------------------------------------------------ composition
\* The prompt builders of SearchPreprocessor and of the agent, each run up to
\* MaxRuns times on one input while the clock moves between the runs.
MaxRuns == 2

ComposeFocusInputs ==
    {<<>>, <<"AI agents">>, <<"AI agents", "LLM tooling">>,
     <<"AI agents", "LLM tooling", "vector search", "model serving">>}

ComposeTimeRanges == CanonicalRanges \cup {<<"2", "d">>}

ComposeCalls ==
    {Call("compose", [focus_areas |-> fa, time_range |-> t], pc) :
        fa \in ComposeFocusInputs, t \in ComposeTimeRanges, pc \in Profiles}

InitCompose ==
    /\ SearchIdle
    /\ ExtractIdle
    /\ vin \in ComposeCalls
    /\ vout = Ret(<<>>)
    /\ vpc = "ready"
    /\ RegistryIdle
    /\ ServeIdle

\* The prompt of the builder below with the time of the call put in.
build_unified_search_query_stamped(config, areas, time_range) ==
    <<"I need a comprehensive intelligence report for a ">>
      \o config.display_name \o <<" about: ">> \o Join(areas)
      \o <<"\n\nGenerated: ", ToString(now)>>

\* SearchPreprocessor._build_unified_search_query_from_config, with
\* search_context["time_context"] as _generate_search_context_from_config
\* sets it (the section headings are written without their pictographs).
build_unified_search_query_from_config(config, areas, time_range) ==
    LET persona_display == config.display_name
        time_context == get_time_context(time_range)
        persona_guidance == get_persona_search_guidance_from_config(config)
        objectives_text == IF config.core_objectives # <<>>
                           THEN <<"Core objectives: ">> \o Join(config.core_objectives)
                           ELSE <<>>
        technical_depth == IF config.technical_depth # <<>>
                           THEN config.technical_depth ELSE <<"balanced">>
    IN  <<"I need a comprehensive intelligence report for a ">>
          \o persona_display \o <<" about: ">> \o Join(areas)
          \o <<"\n\nSEARCH INSTRUCTIONS:\n",
               "1. First, search your knowledge base for established information, best practices, and proven methodologies about these topics\n",
               "2. Then, search the web for the latest developments, news, and trends from the ">>
          \o time_context
          \o <<"\n3. Combine both sources to provide a complete picture\n\nPERSONA FOCUS:\n">>
          \o persona_guidance \o <<"\n\n">> \o objectives_text
          \o <<"\n\nTECHNICAL DEPTH: ">> \o technical_depth
          \o <<"\n\nTIME RANGE: Focus on developments from the last ">> \o time_range
          \o <<" for web search.\n\nRESPONSE STRUCTURE:\nPlease organize your response as follows:\n\n",
               "## Knowledge Base Insights\n",
               "[Established information from your knowledge base - proven practices, foundational concepts]\n\n",
               "## Latest Developments\n",
               "[Recent information from web search - news, trends, announcements from the ">>
          \o time_context \o <<"]\n\n## Strategic Synthesis for ">> \o persona_display
          \o <<"\n[Combined insights, actionable recommendations, and next steps specifically relevant to ">>
          \o persona_display
          \o <<"]\n\nIMPORTANT: Use BOTH your knowledge base search AND web search capabilities. Clearly distinguish between established knowledge and recent developments.">>

\* One run of a builder: what it returned, and when it ran.
Composed(kind, text) ==
    /\ vpc = "ready"
    /\ vin.fn = "compose"
    /\ Len(vout.s) < MaxRuns
    /\ vout' = Ret(Append(vout.s, [kind |-> kind, at |-> now, text |-> text]))
    /\ UNCHANGED <<searchVars, extractVars, vin, vpc, registryVars, serveVars>>

\* generate_search_queries: queries["primary"]
ComposePrimary ==
    Composed("primary",
             build_unified_search_query_from_config(vin.cfg, vin.arg.focus_areas,
                                                    vin.arg.time_range))

\* generate_search_queries: queries["alternatives"]
ComposeAlternatives ==
    Composed("alternatives",
             generate_alternative_queries_from_config(vin.cfg, vin.arg.focus_areas))

\* SyncSearchAgent._build_working_search_query
ComposeWorking ==
    Composed("working",
             build_working_search_query("devops_engineer", vin.cfg, vin.arg.focus_areas))

\* Time passes between two runs.
ClockTick ==
    /\ vin.fn = "compose"
    /\ now < MaxRuns
    /\ now' = now + 1
    /\ UNCHANGED <<agentVars, phase, requestVars, loopVars, endVars, extractVars,
                   auxVars>>

NextCompose ==
    \/ ComposePrimary
    \/ ComposeAlternatives
    \/ ComposeWorking
    \/ ClockTick

ComposeSpec == InitCompose /\ [][NextCompose]_vars

\* ---------------------------------------------------------- postprocessing
\* The functions that work on a finished response text, each called once on
\* one input.
MaxPhrases == 2

\* The pieces the response texts are made of.
Phrases ==
    {<<"#", "#", " ", "K", "n", "o", "w", "l", "e", "d", "g", "e", " ", "B", "a", "s", "e", "\n">>,
     <<"L", "a", "t", "e", "s", "t", " ", "d", "e", "v", "e", "l", "o", "p", "m", "e", "n", "t", "s", ":", " ", "w", "e", " ", "r", "e", "c", "o", "m", "m", "e", "n", "d", " ", "s", "c", "a", "l", "i", "n", "g", " ", "i", "n", "f", "r", "a", "s", "t", "r", "u", "c", "t", "u", "r", "e", "\n", "\n">>,
     <<"-", " ", "n", "e", "x", "t", " ", "s", "t", "e", "p", ":", " ", "c", "o", "s", "t", "\n", "\n">>,
     <<"#", " ", "S", "o", "u", "r", "c", "e", "s", ":", " ", "w", "e", "b", " ", "s", "e", "a", "r", "c", "h", "\n">>,
     <<"k", "n", "o", "w", "l", "e", "d", "g", "e", "\n", "b", "a", "s", "e", " ", "s", "t", "r", "a", "t", "e", "g", "y">>,
     <<"U+1F4DA">> \o <<" ", "h", "o", "w", " ", "t", "o", " ", "g", "u", "i", "d", "e">>,
     [i \in 1..501 |-> "x"]}

\* The texts of at most n phrases.
RECURSIVE TextsOf(_)
TextsOf(n) ==
    IF n = 0 THEN {<<>>}
    ELSE TextsOf(n - 1) \cup {t \o ph : t \in TextsOf(n - 1), ph \in Phrases}

AnalyzePersonas == {"devops_engineer", "product_owner", "data_scientist"}

AnalyzeCalls ==
    {Call("analyze_response", [response |-> t, persona |-> p], md) :
        t \in TextsOf(MaxPhrases), p \in AnalyzePersonas, md \in SearchMetadataInputs}

\* The bodies of the sections found in a response: none, a short one, one
\* longer than the 300 characters of the summary excerpt.
SectionBodies == {<<>>, <<"o", "k">>, [i \in 1..301 |-> "s"]}

FormatPersonas == {"devops_engineer", "data_scientist"}

FormatCalls ==
    {Call("process_search_response",
          [raw_response |-> IF kb = <<>> /\ web = <<>> /\ syn = <<>> THEN raw
                            ELSE kb \o web \o syn,
           sections |-> SectionsOf(kb, web, syn, raw), persona |-> p], md) :
        kb \in SectionBodies, web \in SectionBodies, syn \in SectionBodies,
        raw \in {<<>>, <<"r", "a", "w">>}, p \in FormatPersonas,
        md \in SearchMetadataInputs}

\* The lines the raw texts are made of: empty, blank, plain, padded.
MaxLines == 5
LineKinds == {<<>>, <<" ">>, <<"a">>, <<" ", "b", " ">>}

\* The texts of 1..n lines joined by newlines (one empty line: the empty text).
RECURSIVE LinedTexts(_)
LinedTexts(n) ==
    IF n = 1 THEN LineKinds
    ELSE LinedTexts(n - 1)
           \cup {t \o <<"\n">> \o l : t \in LinedTexts(n - 1), l \in LineKinds}

NewsletterCalls ==
    {Call("newsletter", [response |-> t, persona |-> "devops_engineer"], NoAreas) :
        t \in LinedTexts(MaxLines)}

DailyCalls ==
    {Call("daily_brief", [response |-> t, persona |-> "devops_engineer"], fa) :
        t \in LinedTexts(MaxLines),
        fa \in {NoAreas, ListOf(<<>>), ListOf(<<"AI infrastructure", "MLOps platforms">>)}}

PostprocessCalls == AnalyzeCalls \cup FormatCalls \cup NewsletterCalls \cup DailyCalls

InitPostprocess ==
    /\ SearchIdle
    /\ ExtractIdle
    /\ vin \in PostprocessCalls
    /\ vout = Ret(<<>>)
    /\ vpc = "ready"
    /\ RegistryIdle
    /\ ServeIdle

\* ResponseQualityAnalyzer.analyze_response(response, persona, metadata)
AnalyzeResponse ==
    Validated("analyze_response",
              analyze_response(vin.arg.response, vin.arg.persona, vin.cfg))

\* SearchResponsePostprocessor.process_search_response(raw_response,
\* persona, search_metadata, correlation_id): result.formatted_response
ProcessSearchResponse ==
    Validated("process_search_response",
              Ret(process_search_response(vin.arg.raw_response, vin.arg.sections,
                                          vin.arg.persona, vin.cfg)))

\* SyncSearchAgent._transform_to_newsletter_format(response, persona,
\* persona_config, focus_areas)
TransformToNewsletter ==
    Validated("newsletter",
              Ret(transform_to_newsletter_format(vin.arg.response, vin.arg.persona)))

\* SyncSearchAgent._transform_to_daily_brief_format(response, persona,
\* persona_config, focus_areas)
TransformToDailyBrief ==
    Validated("daily_brief",
              Ret(transform_to_daily_brief_format(vin.arg.response, vin.arg.persona,
                                                  vin.cfg)))

NextPostprocess ==
    \/ AnalyzeResponse
    \/ ProcessSearchResponse
    \/ TransformToNewsletter
    \/ TransformToDailyBrief

PostprocessSpec == InitPostprocess /\ [][NextPostprocess]_vars

\* ------------------------------------------------------------ long streams
\* One run of search_ai_info_stream, called directly, over a stream of up to
\* MaxStreamChunks chunks, each with text or without.
MaxStreamChunks == 100

LongStreamChunks == {ChunkOf([edt |-> Str(<<"a">>)], <<>>, 0), EmptyChunk}

InitStream ==
    /\ SearchIdle
    /\ ExtractIdle
    /\ AuxIdle

\* search_ai_info_stream(persona) begins, for a persona the loader knows and
\* for one it does not.
StartStream(persona) ==
    StartSearch("direct", "stream", Request(persona, <<>>, NoneId, <<>>))

\* One pass of the loop; the chunks delivered are not kept.
LongStreamChunk(ch) == ConsumeStreamChunk(ch, 0, MaxStreamChunks, seen)

NextStream ==
    \/ \E persona \in Personas : StartStream(persona)
    \/ CreateReturns
    \/ \E err \in Errors : CreateRaises(err)
    \/ \E ch \in LongStreamChunks : LongStreamChunk(ch)
    \/ EndOfStream
    \/ \E err \in Errors : UpstreamError(err)

StreamSpec == InitStream /\ [][NextStream]_vars

\* ------------------------------------------------------------ properties
\* t holds part as a contiguous piece.
Contains(t, part) ==
    \E i \in 0..(Len(t) - Len(part)) : SubSeq(t, i + 1, i + Len(part)) = part

\* content of every chunk of a sequence, concatenated in order
RECURSIVE ConcatContents(_)
ConcatContents(chunks) ==
    IF chunks = <<>> THEN <<>>
    ELSE ExtractOutcome(Head(chunks)).s \o ConcatContents(Tail(chunks))

RECURSIVE CountContents(_)
CountContents(chunks) ==
    IF chunks = <<>> THEN 0
    ELSE (IF ExtractOutcome(Head(chunks)).s # <<>> THEN 1 ELSE 0) + CountContents(Tail(chunks))

\* The chunks whose content was extracted: every chunk delivered, but the one
\* at which the sync loop found the deadline exceeded.
Processed ==
    IF outcome = "timeout" THEN SubSeq(seen, 1, Len(seen) - 1) ELSE seen

\* A step of the sync loop that takes a chunk after the deadline.
SyncChunkAfterDeadline ==
    /\ phase = "streaming" /\ mode = "sync"
    /\ chunk_count' = chunk_count + 1
    /\ now' - start_time > timeout

\* C1: in _execute_search_sync the clock is read before a chunk is processed:
\* a chunk that arrives once the elapsed time exceeds the timeout is neither
\* extracted nor appended, consumption stops there, and the text accumulated
\* before is kept: it is what the streaming phase returns (stripped) and the
\* report carries it.
C1_DeadlineKeepsPartialText ==
    [][SyncChunkAfterDeadline =>
        /\ full_response' = full_response
        /\ content_chunks' = content_chunks
        /\ phase' = "done"
        /\ outcome' = "timeout"
        /\ Strip(full_response) # <<>> =>
              /\ search_results' = Strip(full_response)
              /\ Contains(result'.formatted_response, Strip(full_response))]_vars

C1_Witness ==
    /\ phase = "done" /\ mode = "sync" /\ outcome = "timeout"
    /\ content_chunks >= 1
    /\ Strip(full_response) # <<>>
    /\ search_results = Strip(full_response)

\* A result that tells its caller the deadline was exceeded, by a timed_out
\* field or by an error field.
MarkedTimedOut(res) ==
    \/ "timed_out" \in DOMAIN res /\ res["timed_out"] = TRUE
    \/ IsStr(res.error)

\* C2: a search over a source that keeps yielding chunks returns once the
\* timeout has passed, and its result is marked timedOut=true and carries the
\* partial text.
C2_TimedOutResultIsMarked ==
    (phase = "done" /\ mode = "sync" /\ outcome = "timeout") =>
        /\ MarkedTimedOut(result)
        /\ Strip(full_response) # <<>> =>
              Contains(result.formatted_response, Strip(full_response))

\* C3: when the upstream stops delivering chunks without terminating, the
\* search still returns eventually.
C3_HangStillReturns == [](hung => <>(phase = "done"))

\* C4: in search_ai_info_stream a chunk that arrives once the timeout has
\* elapsed ends consumption, and the final result event is emitted.
C4_StreamStopsAtDeadline ==
    [][(/\ phase = "streaming" /\ mode = "stream"
        /\ chunk_count' = chunk_count + 1
        /\ now' - start_time > timeout) =>
        /\ full_response' = full_response
        /\ phase' = "done"
        /\ events' # <<>> /\ events'[Len(events')].type = "result"]_vars

\* C5: every chunk delivered increments chunk_count; exactly the processed
\* chunks whose extraction yields a non-empty string increment content_chunks
\* and are appended, in arrival order, so content_chunks <= chunk_count and the
\* accumulated text is the concatenation of the extracted strings.
C5_ChunkAccounting ==
    /\ chunk_count = Len(seen)
    /\ content_chunks <= chunk_count
    /\ content_chunks = CountContents(Processed)
    /\ full_response = ConcatContents(Processed)

C5_Witness ==
    /\ content_chunks = 2
    /\ chunk_count = 3
    /\ Len(full_response) = 2 /\ full_response[1] # full_response[2]

\* The probe chain finds nothing in the chunk, or raises.
ExtractionFails(ch) ==
    LET r == ProbeEventDeltaText(ch) IN r.raised \/ r.s = <<>>

\* C6: a chunk whose extraction raises or matches no probe does not abort the
\* stream: the accumulated text and content_chunks are unchanged by it and the
\* loop goes on to the next chunk.
C6_FailedExtractionIsSwallowed ==
    [][(/\ phase = "streaming"
        /\ chunk_count' = chunk_count + 1
        /\ ~(mode = "sync" /\ now' - start_time > timeout)
        /\ ExtractionFails(seen'[Len(seen')])) =>
        /\ full_response' = full_response
        /\ content_chunks' = content_chunks
        /\ phase' = "streaming"
        /\ outcome' = "none"]_vars

C6_Witness ==
    /\ phase = "streaming"
    /\ Len(seen) = 3
    /\ seen[1].raisesAt = 1
    /\ seen[2] = EmptyChunk
    /\ content_chunks = 1

\* The values at the probed paths, in the order of the probes.
ProbeValues(ch) == <<ch.edt, ch.epc, ch.dc, ch.dt, ch.c, ch.raw>> \o ch.choices

\* The value of the first probe that yields a non-empty string, "" for none.
RECURSIVE FirstYield(_)
FirstYield(vals) ==
    IF vals = <<>> THEN <<>>
    ELSE IF IsStr(Head(vals)) /\ Head(vals).s # <<>> THEN Head(vals).s
    ELSE FirstYield(Tail(vals))

\* C7: extraction returns the value of the first probe, in the fixed order,
\* that yields a non-empty string; a probe that yields an empty or non-string
\* value does not stop the later probes.
C7_FirstNonEmptyProbeWins ==
    (xpc = "done" /\ xchunk.raisesAt = 0) => xout = FirstYield(ProbeValues(xchunk))

\* C8: whatever the upstream does (an error before or during streaming, a
\* timeout, an empty stream), search_ai_info returns a record with a non-empty
\* formatted_response and the request's correlation id.
C8_SearchAlwaysReturnsRecord ==
    (phase = "done" /\ mode = "sync" /\ outcome # "none") =>
        /\ result.type = "result"
        /\ result.formatted_response # <<>>
        /\ result.persona = request.persona
        /\ IF request.correlation_id \in {NoneId, ""}
           THEN result.correlation_id \notin {NoneId, ""}
           ELSE result.correlation_id = request.correlation_id

C8_Witness ==
    /\ phase = "done" /\ mode = "sync" /\ outcome = "failed"
    /\ chunk_count = 0
    /\ request.correlation_id = "req_12345"
    /\ result.correlation_id = "req_12345"
    /\ Contains(result.formatted_response, SearchFailed("ConnectionError"))

\* C9: a search that failed or timed out in the streaming phase returns
\* metadata with an explicit error, and the HTTP response does not report
\* success.
C9_DegradedSearchCarriesError ==
    (phase = "done" /\ mode = "sync" /\ outcome \in {"failed", "timeout"}) =>
        /\ IsStr(result.error)
        /\ entry = "http" => (~response.success /\ IsStr(response.error))

\* C10: when the stream completes without error or timeout and the accumulated
\* text is empty or whitespace, the report is the "Search Results Unavailable"
\* template with the requested focus areas, and no error is reported.
C10_EmptyStreamGivesUnavailableTemplate ==
    (phase = "done" /\ outcome = "completed" /\ Strip(full_response) = <<>>) =>
        /\ result.formatted_response =
              UnavailableTemplate(DisplayName(request.persona, persona_config), focus_areas)
        /\ Contains(result.formatted_response, Join(focus_areas))
        /\ result.error = Absent

\* C11: for a persona that is not in the registry the search is refused at
\* once: no prompt is handed to the upstream and no streaming call is started.
C11_UnknownPersonaIsRejected ==
    (phase # "idle" /\ request.persona \notin AvailablePersonas) =>
        /\ phase = "done"
        /\ submitted = <<>>
        /\ chunk_count = 0
        /\ result = NoResult

\* C12: a search whose correlation id is malformed (shorter than 8 characters,
\* or with a character outside [A-Za-z0-9_-]) is rejected before any streaming
\* attempt; a missing id is replaced by a fresh one.
C12_MalformedCorrelationIdIsRejected ==
    /\ (phase # "idle" /\ validate_correlation_id(request.correlation_id) = ValueError) =>
          (submitted = <<>> /\ chunk_count = 0 /\ result = NoResult)
    /\ (phase # "idle" /\ request.correlation_id = NoneId /\ submitted # <<>>) =>
          correlation_id = validate_correlation_id(NoneId)

\* The canonical token a time-range input stands for, by the table of the
\* contract: the enumeration and the synonyms, whatever the case and the
\* blanks around; 30d for every other input.
ExpectedRange(t) ==
    IF Strip(Lower(t)) \in CanonicalRanges \cup RangeSynonyms
    THEN RangeMap(Strip(Lower(t))) ELSE T30d

\* C13: time-range validation never fails; for every input string it returns
\* a member of {7d, 30d, 90d, 6m, 1y}: the token itself or the synonym's
\* token, matched whatever the case, and 30d for every unknown value.
C13_TimeRangeValidationIsTotal ==
    (vpc = "done" /\ vin.fn \in {"preprocessor_time_range", "validator_time_range",
                                 "request_time_range"}) =>
        /\ ~vout.raised
        /\ vout.s \in CanonicalRanges
        /\ vout.s = ExpectedRange(vin.arg)

\* An entry that survives cleaning: a string whose cleaned form has at least
\* MinAreaLen characters.
Survives(e) == IsStr(e) /\ Len(clean_focus_area(e.s)) >= MinAreaLen

SurvivorIndexes(l) == {i \in 1..Len(l) : Survives(l[i])}

\* the index in l of its j-th surviving entry
NthSurvivor(l, j) ==
    CHOOSE i \in SurvivorIndexes(l) : Cardinality({k \in SurvivorIndexes(l) : k < i}) = j - 1

C15_TooManyFocusAreasAreTruncated ==
    /\ (/\ vpc = "done"
        /\ vin.fn \in {"process_focus_areas", "validator_focus_areas", "request_focus_areas"}
        /\ vin.arg.k = "list"
        /\ \A i \in 1..Len(vin.arg.s) : IsStr(vin.arg.s[i])
        /\ Len(vin.arg.s) > 10)
          => (~vout.raised /\ Len(vout.s) <= 10)
    /\ (/\ vpc = "done"
        /\ vin.fn \in {"validator_focus_areas", "request_focus_areas"}
        /\ vin.arg.k # "list")
          => vout.raised

\* A source that cannot be read or parsed, or that yields no usable persona.
FailedSource(src) ==
    \/ src.kind \in {"missing", "unreadable", "invalid", "empty"}
    \/ src.shape \in {"nonmapping", "nopersonas", "badpersonas"}
    \/ src.shape = "personas" /\ \A n \in DOMAIN src.entries : src.entries[n] = "bad"

\* C16: loading the registry never aborts and never leaves it empty: after a
\* read or parse failure of the source (no file, an unreadable file, invalid
\* or empty YAML, a document without usable personas) the registry holds the
\* five built-in profiles.
C16_LoadFallsBackToBuiltins ==
    /\ rpc # "aborted"
    /\ (rcall = "construct" /\ rpc = "idle") =>
          /\ DOMAIN personas # {}
          /\ FailedSource(loaded_from) => personas = [n \in BuiltinNames |-> "builtin"]

UsableNames(data) == {n \in DOMAIN data.entries : data.entries[n] # "bad"}

\* C18: reload replaces the whole registry: once reload_config has returned,
\* the names served are exactly the profiles of the newly loaded source (a
\* persona removed from the source is gone), with the source's contents, and
\* the "after" count reported is the number of profiles in that source.
C18_ReloadReplacesRegistry ==
    (rcall = "reload" /\ rpc = "idle" /\ rresult.returned = "True") =>
        /\ DOMAIN personas = UsableNames(config_data)
        /\ \A n \in DOMAIN personas : personas[n] = config_data.entries[n]
        /\ rresult.after = Cardinality(UsableNames(config_data))

\* An invocation that has completed its search and updated the statistics.
Completed(i) == inv[i].pc \in {"counted", "done"}

RECURSIVE SumElapsed(_)
SumElapsed(n) ==
    IF n = 0 THEN 0
    ELSE (IF Completed(n) THEN inv[n].elapsed ELSE 0) + SumElapsed(n - 1)

\* C19: whatever the interleaving of the search invocations, search_count is
\* the number of invocations that completed their search and
\* total_search_time is the sum of their elapsed times (no update is lost),
\* and neither value ever decreases.
C19_StatsAreExact ==
    /\ [](/\ search_count = Cardinality({i \in 1..MaxInvocations : Completed(i)})
          /\ total_search_time = SumElapsed(MaxInvocations))
    /\ [][search_count' >= search_count /\ total_search_time' >= total_search_time]_vars

C19_Witness ==
    /\ search_count = 2
    /\ \E i, j \in 1..MaxInvocations :
          /\ inv[i].mode = "stream" /\ inv[i].pc = "counted"
          /\ inv[j].mode = "sync" /\ inv[j].pc = "done"
          /\ inv[j].start > inv[i].start
          /\ inv[j].elapsed > 0
          /\ inv[i].elapsed > inv[j].elapsed
    /\ total_search_time > 20

\* C20: the deadline enforced for a request is the timeout that request
\* carries (60 when it carries none), whatever earlier or concurrent requests
\* carried, and the timeout_used of the response is the deadline enforced.
C20_DeadlineIsTheRequestsOwn ==
    \A i \in 1..MaxInvocations :
        (inv[i].mode = "sync" /\ inv[i].pc = "done") =>
            /\ inv[i].enforced = (IF inv[i].req_timeout # <<>> THEN inv[i].req_timeout[1] ELSE 60)
            /\ inv[i].timeout_used = inv[i].enforced

\* The runs of one builder recorded so far.
RunsOf(kind) == {i \in 1..Len(vout.s) : vout.s[i].kind = kind}

C22_TrendQueryOnlyWithoutPatternsAndModifiers ==
    vin.fn = "compose" =>
        \A i \in RunsOf("alternatives") :
            /\ Len(vout.s[i].text) <= 2
            /\ (\E k \in 1..Len(vout.s[i].text) :
                    vout.s[i].text[k] = TrendQuery(vin.arg.focus_areas))
                 => /\ vin.cfg.search_patterns = <<>>
                    /\ vin.cfg.search_modifiers = <<>>

\* C23: whatever the response text (the empty text included), the persona
\* and the metadata, every sub-score of a returned analysis lies in [0, 1]
\* and so does the weighted overall score.
C23_ScoresAreInUnitRange ==
    vin.fn = "analyze_response" /\ vpc = "done" /\ ~vout.raised =>
        /\ \A c \in DOMAIN vout.s.scores :
              vout.s.scores[c] >= 0 /\ vout.s.scores[c] <= ScoreScale
        /\ vout.s.overall_score >= 0
        /\ vout.s.overall_score <= ScoreScale * 100

\* An analysis returned with all three attribution indicators true.
C23_Witness ==
    /\ vin.fn = "analyze_response" /\ vpc = "done" /\ ~vout.raised
    /\ vout.s.scores.source_attribution = ScoreScale
    /\ vout.s.overall_score > 0

\* C24: quality analysis never fails: with metadata that is None or no
\* mapping it returns what it returns for the empty mapping.
C24_AnalysisNeverFails ==
    vin.fn = "analyze_response" /\ vpc = "done" =>
        /\ ~vout.raised
        /\ ~vin.cfg.mapping =>
              vout = analyze_response(vin.arg.response, vin.arg.persona,
                                      SearchMetadata(TRUE, FALSE, FALSE, FALSE))

\* The headings that open the blocks of a report, in the order claimed, the
\* footer's rule last.
BlockMarks ==
    <<"# SyncAI Intelligence Report:", "## Executive Summary",
      "## Knowledge Base Insights", "## Latest Developments",
      "## Strategic Synthesis for", "## Additional Information", "## Sources", "---">>

\* Where a mark stands in a report (0: nowhere).
MarkAt(report, mark) ==
    IF \E i \in 1..Len(report) : report[i] = mark
    THEN CHOOSE i \in 1..Len(report) : report[i] = mark ELSE 0

\* C25: the formatted report is its blocks in one fixed order: header,
\* executive summary (only with a synthesis), knowledge base, latest
\* developments, synthesis, other, source attribution, and the footer last;
\* the attribution stands before the footer.
C25_ReportBlocksInOrder ==
    vin.fn = "process_search_response" /\ vpc = "done" /\ vin.cfg.mapping =>
        LET report == vout.s
        IN  /\ \A a, b \in 1..Len(BlockMarks) :
                  a < b /\ MarkAt(report, BlockMarks[a]) > 0
                        /\ MarkAt(report, BlockMarks[b]) > 0
                    => MarkAt(report, BlockMarks[a]) < MarkAt(report, BlockMarks[b])
            /\ MarkAt(report, "## Executive Summary") > 0
                 <=> (vin.arg.sections.synthesis # <<>>
                        /\ TemplateOf(vin.arg.persona).include_summary)
            /\ MarkAt(report, "---") > 0

\* The lines of a text that hold something other than whitespace, by
\* position, and the k-th of them.
FilledLineIndexes(t) ==
    {i \in 1..Len(SplitLines(t)) : \E j \in 1..Len(SplitLines(t)[i]) : SplitLines(t)[i][j] # " "}
NthFilledLine(t, k) ==
    SplitLines(t)[CHOOSE i \in FilledLineIndexes(t) :
                      Cardinality({j \in FilledLineIndexes(t) : j <= i}) = k]

\* What stands in a text between the first piece `from` and the first piece
\* `to`.
Between(out, from, to) == SubSeq(out, MarkAt(out, from) + 1, MarkAt(out, to) - 1)

\* Item k of a numbered list shows the number k and the k-th filled line of
\* the text, in the input's order.
IsItem(item, t, k) ==
    /\ Len(item) > 3
    /\ SubSeq(item, 1, 3) = <<"**", ToString(k), ".** ">>
    /\ SubSeq(item, 4, Len(item)) = Strip(NthFilledLine(t, k))

\* C26: the newsletter transform returns for every text, with one numbered
\* item under Key Updates for each line that is not empty, numbered 1..n in
\* the order of the input (none for the empty text), and the fixed Action
\* Items block right after them.
C26_NewsletterNumbersEveryLine ==
    vin.fn = "newsletter" /\ vpc = "done" =>
        LET t == vin.arg.response
            n == Cardinality(FilledLineIndexes(t))
            items == SplitLines(Between(vout.s, KeyUpdatesHeading, ActionItemsBlock))
        IN  /\ ~vout.raised
            /\ MarkAt(vout.s, KeyUpdatesHeading) > 0
            /\ MarkAt(vout.s, ActionItemsBlock) > MarkAt(vout.s, KeyUpdatesHeading)
            /\ Len(items) = n + 1 /\ items[n + 1] = <<>>
            /\ \A k \in 1..n : IsItem(items[k], t, k)

\* The newsletter of a text of five filled lines.
C26_Witness ==
    /\ vin.fn = "newsletter" /\ vpc = "done"
    /\ Cardinality(FilledLineIndexes(vin.arg.response)) = 5
    /\ Len(SplitLines(Between(vout.s, KeyUpdatesHeading, ActionItemsBlock))) = 6

\* C27: the daily brief holds exactly min(3, n) numbered bullets for a text
\* of n lines that are not empty: the first of them, in order, numbered from
\* 1; it returns for every text and with or without focus areas.
C27_DailyBriefHasAtMostThreeBullets ==
    vin.fn = "daily_brief" /\ vpc = "done" =>
        LET t == vin.arg.response
            n == Cardinality(FilledLineIndexes(t))
            m == IF n < 3 THEN n ELSE 3
            body == Between(vout.s, "*\n\n", DailyAction)
            bullets == IF body = <<>> THEN <<>> ELSE SplitLines(body)
        IN  /\ ~vout.raised
            /\ MarkAt(vout.s, DailyAction) > MarkAt(vout.s, "*\n\n")
            /\ Len(bullets) = m
            /\ \A k \in 1..m : IsItem(bullets[k], t, k)

\* The daily brief of a text with more than three filled lines and no focus
\* areas.
C27_Witness ==
    /\ vin.fn = "daily_brief" /\ vpc = "done" /\ vin.cfg = NoAreas
    /\ Cardinality(FilledLineIndexes(vin.arg.response)) > 3
    /\ MarkAt(vout.s, "**") > 0

\* The search_progress events emitted so far, in order.
ProgressEvents ==
    LET IsProgress(e) == e.type = "search_progress"
    IN  SelectSeq(events, IsProgress)

\* C28: the streaming variant emits search_progress at every 50th chunk
\* consumed (50, 100, ...), with or without content in that chunk, and the
\* event's chunks_processed is the number of chunks consumed so far.
C28_ProgressAtEveryFiftiethChunk ==
    mode = "stream" /\ phase = "streaming" =>
        /\ Len(ProgressEvents) = chunk_count \div 50
        /\ \A k \in 1..Len(ProgressEvents) : ProgressEvents[k].chunks_processed = 50 * k

\* The place of an event type in a run of the streaming variant.
EventRank(e) ==
    CASE e.type = "search_started" -> 1
      [] e.type \in {"persona_loaded", "warning"} -> 2
      [] e.type = "query_built" -> 3
      [] e.type = "search_executing" -> 4
      [] e.type = "search_progress" -> 5
      [] e.type = "search_completed" -> 6
      [] e.type \in {"result", "error"} -> 7
      [] OTHER -> 0

\* C29: a run of search_ai_info_stream emits search_started, persona_loaded
\* or warning, query_built, search_executing, any number of search_progress,
\* search_completed and then one terminal event (result or error), after
\* which nothing follows; a failure of the upstream while chunks are consumed
\* still ends in search_completed and result.
C29_EventsFollowTheProtocol ==
    mode = "stream" /\ entry = "direct" =>
        /\ \A i \in 1..Len(events) :
              /\ i <= 4 => EventRank(events[i]) = i
              /\ i > 4 => /\ EventRank(events[i]) >= 5
                          /\ EventRank(events[i - 1]) <= EventRank(events[i])
                          /\ EventRank(events[i]) >= 6
                               => EventRank(events[i - 1]) < EventRank(events[i])
              /\ i < Len(events) => EventRank(events[i]) # 7
              /\ events[i].type = "result" => EventRank(events[i - 1]) = 6
        /\ phase = "done" => events # <<>> /\ EventRank(events[Len(events)]) = 7
        /\ phase # "done" => \A i \in 1..Len(events) : EventRank(events[i]) < 6
        /\ phase = "done" /\ outcome = "failed" =>
              /\ events[Len(events) - 1].type = "search_completed"
              /\ events[Len(events)].type = "result"

\* A run that reported progress, then lost the upstream, and ended.
C29_Witness ==
    /\ mode = "stream" /\ entry = "direct" /\ phase = "done" /\ outcome = "failed"
    /\ chunk_count > 50
    /\ Len(ProgressEvents) > 0

\* C30: whatever search, streaming and newsletter requests the HTTP layer
\* has taken, the agent's timeout lies in [10, 120] (it starts at 60); a
\* request whose timeout is outside the range is refused and leaves the
\* agent's timeout as it was.
C30_AgentTimeoutStaysInRange ==
    /\ [](timeout >= 10 /\ timeout <= 120)
    /\ [][\A i \in 1..MaxInvocations :
             inv[i].pc = "new" /\ inv'[i].req_timeout # <<>>
               /\ (inv'[i].req_timeout[1] < 10 \/ inv'[i].req_timeout[1] > 120)
             => inv'[i].pc = "rejected" /\ timeout' = timeout]_vars

\* A request at the upper end was taken and one beyond it was refused.
C30_Witness ==
    /\ timeout = 120
    /\ \E i, j \in 1..MaxInvocations :
          /\ inv[i].pc = "done" /\ inv[i].mode = "newsletter"
          /\ inv[j].pc = "rejected" /\ inv[j].req_timeout = <<121>>

====
